---- MODULE Spec2Model ----
(***************************************************************************)
(* Model of the RAG chatbot backend: the vector store service              *)
(* (QdrantService, src/services/qdrant.js) with its in-memory fallback,    *)
(* the embedding cache (RedisService, same file), the embedding provider   *)
(* (EmbeddingsService, src/unnamed/part_001) and the retrieval/ingestion   *)
(* orchestration (RAGService, src/services/rag.js).                        *)
(***************************************************************************)
EXTENDS Integers, Sequences, FiniteSets, TLC

(***************************************************************************)
(* JavaScript numbers are IEEE-754 binary64.  cosineSimilarity uses        *)
(* Math.sqrt, * and /, each correctly rounded to 53 significant bits, so   *)
(* the arithmetic is modelled bit-exactly on natural numbers of arbitrary  *)
(* size.                                                                   *)
(***************************************************************************)
Precision == 53

\* A natural number is a little-endian sequence of limbs in 0..Base-1.
LimbBits == 15

Base == 2 ^ LimbBits

RECURSIVE LimbsOf(_)
LimbsOf(n) == IF n = 0 THEN <<>> ELSE <<n % Base>> \o LimbsOf(n \div Base)

\* the value of a number of at most two limbs
NatOf(a) == IF Len(a) = 0 THEN 0 ELSE IF Len(a) = 1 THEN a[1] ELSE a[1] + Base * a[2]

RECURSIVE Trim(_)
Trim(a) == IF Len(a) > 0 /\ a[Len(a)] = 0 THEN Trim(SubSeq(a, 1, Len(a) - 1)) ELSE a

LimbAt(a, i) == IF i >= 1 /\ i <= Len(a) THEN a[i] ELSE 0

RECURSIVE AddFrom(_, _, _, _)
AddFrom(a, b, i, c) ==
    IF i > Len(a) /\ i > Len(b)
    THEN (IF c = 0 THEN <<>> ELSE <<c>>)
    ELSE LET s == LimbAt(a, i) + LimbAt(b, i) + c
         IN  <<s % Base>> \o AddFrom(a, b, i + 1, s \div Base)

BigAdd(a, b) == AddFrom(a, b, 1, 0)

\* 2a + bit
Twice(a, bit) == AddFrom(a, a, 1, bit)

RECURSIVE SubFrom(_, _, _, _)
SubFrom(a, b, i, br) ==
    IF i > Len(a)
    THEN <<>>
    ELSE LET d == LimbAt(a, i) - LimbAt(b, i) - br
         IN  <<(d + Base) % Base>> \o SubFrom(a, b, i + 1, IF d < 0 THEN 1 ELSE 0)

\* a - b for a >= b
BigSub(a, b) == Trim(SubFrom(a, b, 1, 0))

RECURSIVE GeqFrom(_, _, _)
GeqFrom(a, b, i) ==
    IF i = 0 THEN TRUE
    ELSE IF LimbAt(a, i) # LimbAt(b, i) THEN LimbAt(a, i) > LimbAt(b, i)
    ELSE GeqFrom(a, b, i - 1)

BigGeq(a, b) == GeqFrom(a, b, IF Len(a) > Len(b) THEN Len(a) ELSE Len(b))

\* the number of bits of a (a without leading zero limbs)
BitLen(a) ==
    IF Len(a) = 0 THEN 0
    ELSE LET top == a[Len(a)]
         IN  LimbBits * (Len(a) - 1)
               + (CHOOSE k \in 1..LimbBits : top < 2 ^ k /\ top >= 2 ^ (k - 1))

\* bit i of a, the lowest bit being bit 1
BitOf(a, i) == (LimbAt(a, (i - 1) \div LimbBits + 1) \div (2 ^ ((i - 1) % LimbBits))) % 2

RECURSIVE MulSmall(_, _, _, _)
MulSmall(a, d, i, c) ==
    IF i > Len(a)
    THEN (IF c = 0 THEN <<>> ELSE <<c>>)
    ELSE LET p == a[i] * d + c
         IN  <<p % Base>> \o MulSmall(a, d, i + 1, p \div Base)

ShlLimbs(a, k) ==
    IF Len(a) = 0 THEN <<>>
    ELSE [i \in 1..(Len(a) + k) |-> IF i <= k THEN 0 ELSE a[i - k]]

\* a * 2^k
Shl(a, k) == ShlLimbs(MulSmall(a, 2 ^ (k % LimbBits), 1, 0), k \div LimbBits)

\* a div 2^k
Shr(a, k) ==
    LET l == k \div LimbBits
        o == k % LimbBits
        n == Len(a) - l
    IN  IF n <= 0 THEN <<>>
        ELSE Trim([i \in 1..n |->
                     (a[i + l] \div (2 ^ o))
                       + (LimbAt(a, i + l + 1) % (2 ^ o)) * (2 ^ (LimbBits - o))])

RECURSIVE MulFrom(_, _, _)
MulFrom(a, b, i) ==
    IF i > Len(b) THEN <<>>
    ELSE BigAdd(MulSmall(a, b[i], 1, 0), ShlLimbs(MulFrom(a, b, i + 1), 1))

BigMul(a, b) == Trim(MulFrom(a, b, 1))

\* one step of the long division of a by b, at bit i of a
DivStep(a, b, i, st) ==
    LET r1 == Twice(st.r, BitOf(a, i))
        ge == BigGeq(r1, b)
    IN  [q |-> Twice(st.q, IF ge THEN 1 ELSE 0),
         r |-> IF ge THEN BigSub(r1, b) ELSE r1]

\* the steps for the bits hi down to lo of a
RECURSIVE DivRange(_, _, _, _, _)
DivRange(a, b, hi, lo, st) ==
    IF hi = lo THEN DivStep(a, b, hi, st)
    ELSE LET mid   == (hi + lo) \div 2
             upper == DivRange(a, b, hi, mid + 1, st)
         IN  IF Len(upper.q) >= 0 THEN DivRange(a, b, mid, lo, upper) ELSE upper

\* quotient and remainder of a by b, a > 0
BigDivMod(a, b) == DivRange(a, b, BitLen(a), 1, [q |-> <<>>, r |-> <<>>])

\* one step of the integer square root of a, at the bit pair j of a
SqrtStep(a, j, st) ==
    LET r1    == Twice(Twice(st.r, BitOf(a, 2 * j)), BitOf(a, 2 * j - 1))
        trial == Twice(Twice(st.q, 0), 1)
        ge    == BigGeq(r1, trial)
    IN  [q |-> Twice(st.q, IF ge THEN 1 ELSE 0),
         r |-> IF ge THEN BigSub(r1, trial) ELSE r1]

RECURSIVE SqrtRange(_, _, _, _)
SqrtRange(a, hi, lo, st) ==
    IF hi = lo THEN SqrtStep(a, hi, st)
    ELSE LET mid   == (hi + lo) \div 2
             upper == SqrtRange(a, hi, mid + 1, st)
         IN  IF Len(upper.q) >= 0 THEN SqrtRange(a, mid, lo, upper) ELSE upper

\* floor of the square root of a, and the remainder, a > 0
BigSqrtRem(a) == SqrtRange(a, (BitLen(a) + 1) \div 2, 1, [q |-> <<>>, r |-> <<>>])

(***************************************************************************)
(* A positive double is [m, e]: the 53-bit significand m (2^52 <= m < 2^53)*)
(* and the exponent e, standing for m * 2^e.  Round53 rounds the natural   *)
(* number n (with `sticky` saying that a non-zero fraction was cut off     *)
(* below it) to nearest, ties to even.                                     *)
(***************************************************************************)
Round53(n, sticky) ==
    LET L == BitLen(n)
    IN  IF L <= Precision
        THEN [m |-> Shl(n, Precision - L), e |-> L - Precision]
        ELSE LET drop  == L - Precision
                 kept  == Shr(n, drop)
                 guard == BitOf(n, drop)
                 rest  == sticky \/ \E i \in 1..(drop - 1) : BitOf(n, i) = 1
                 up    == guard = 1 /\ (rest \/ BitOf(kept, 1) = 1)
                 m1    == IF up THEN BigAdd(kept, <<1>>) ELSE kept
             IN  IF BitLen(m1) > Precision
                 THEN [m |-> Shr(m1, 1), e |-> drop + 1]
                 ELSE [m |-> m1, e |-> drop]

\* the double holding the positive integer n (exact below 2^53)
DblOfNat(n) == Round53(LimbsOf(n), FALSE)

\* Math.sqrt(x)
DblSqrt(x) ==
    LET odd == (x.e % 2) # 0
        m2  == IF odd THEN Shl(x.m, 1) ELSE x.m
        e2  == IF odd THEN x.e - 1 ELSE x.e
        s   == BigSqrtRem(Shl(m2, 2 * (Precision + 3)))
        r   == Round53(s.q, Len(s.r) > 0)
    IN  [m |-> r.m, e |-> r.e + (e2 \div 2) - (Precision + 3)]

\* x * y
DblMul(x, y) ==
    LET r == Round53(BigMul(x.m, y.m), FALSE)
    IN  [m |-> r.m, e |-> r.e + x.e + y.e]

\* x / y
DblDiv(x, y) ==
    LET d == BigDivMod(Shl(x.m, Precision + 3), y.m)
        r == Round53(d.q, Len(d.r) > 0)
    IN  [m |-> r.m, e |-> r.e + x.e - y.e - (Precision + 3)]

(***************************************************************************)
(* A score as the program holds it: sign s, exponent e and the significand *)
(* split in its high 26 and low 27 bits; zero is [s=0, e=0, hi=0, lo=0].   *)
(***************************************************************************)
LowBits == 27

Zero == [s |-> 0, e |-> 0, hi |-> 0, lo |-> 0]

Num(sign, x) ==
    [s |-> sign, e |-> x.e, hi |-> NatOf(Shr(x.m, LowBits)),
     lo |-> NatOf(BigSub(x.m, Shl(Shr(x.m, LowBits), LowBits)))]

\* x < y on scores
NumLess(x, y) ==
    LET MagLess(u, v) ==
            \/ u.e < v.e
            \/ u.e = v.e /\ u.hi < v.hi
            \/ u.e = v.e /\ u.hi = v.hi /\ u.lo < v.lo
    IN  IF x.s # y.s THEN x.s < y.s
        ELSE IF x.s = 1 THEN MagLess(x, y)
        ELSE IF x.s = -1 THEN MagLess(y, x)
        ELSE FALSE

NumGeq_Strict(x, y) == NumLess(y, x)

NumGeq(x, y) == ~NumLess(x, y)

One == Num(1, DblOfNat(1))

\* 0.7, the default score threshold, as the double nearest to 7/10
DefaultScoreThreshold == Num(1, DblDiv(DblOfNat(7), DblOfNat(10)))

(***************************************************************************)
(* Values.  Null stands for JavaScript's null and undefined where a string *)
(* is expected, NoVector where a vector is: a vector is a non-empty        *)
(* sequence of integers.  A document is a record of its id, title, content *)
(* and summary, with its embedding once the caller attached one.           *)
(* url, publishedAt and source are copied field by field exactly as title  *)
(* is and are left out; createdAt is written and never read.               *)
(***************************************************************************)
Null == "null"

NoVector == <<>>

Abs(n) == IF n < 0 THEN -n ELSE n

Min(m, n) == IF m < n THEN m ELSE n

SeqsUpTo(S, n) == UNION {[1..m -> S] : m \in 0..n}

\* sum over i in 1..n of a[i] * b[i]: the loop of cosineSimilarity
RECURSIVE DotTo(_, _, _)
DotTo(a, b, n) == IF n = 0 THEN 0 ELSE DotTo(a, b, n - 1) + a[n] * b[n]

\* QdrantService.cosineSimilarity
cosineSimilarity(a, b) ==
    IF a = NoVector \/ b = NoVector THEN Zero
    ELSE IF Len(a) # Len(b) THEN Zero
    ELSE LET dot == DotTo(a, b, Len(a))
             na  == DotTo(a, a, Len(a))
             nb  == DotTo(b, b, Len(b))
         IN  IF na = 0 \/ nb = 0 THEN Zero
             ELSE IF dot = 0 THEN Zero
             ELSE Num(IF dot < 0 THEN -1 ELSE 1,
                      DblDiv(DblOfNat(Abs(dot)),
                             DblMul(DblSqrt(DblOfNat(na)), DblSqrt(DblOfNat(nb)))))

(***************************************************************************)
(* Inputs of the model.                                                    *)
(***************************************************************************)
MaxBatch == 2

MaxK == 2

Ids == {"a", "b"}

D1 == [id |-> "a", title |-> "t1", content |-> "c1", summary |-> Null, embedding |-> <<1, 0>>]

D2 == [id |-> "a", title |-> "t2", content |-> "c2", summary |-> "s2", embedding |-> <<1, 1>>]

D3 == [id |-> "b", title |-> "t3", content |-> "c1", summary |-> "s3", embedding |-> <<2, 2>>]

\* documents with their embedding, as handed to storeDocument(s)
StoreDocs == {D1, D2, D3}

Batches == SeqsUpTo(StoreDocs, MaxBatch)

Queries == {<<1, 0>>, <<1, 1>>}

TopKs == 0..MaxK

Thresholds == {Zero, DefaultScoreThreshold, One}

\* every vector the model hands to cosineSimilarity
Vectors == {NoVector, <<-1, 1>>} \cup Queries \cup {d.embedding : d \in StoreDocs}

\* cosineSimilarity on the model's vectors, evaluated once
Similarity == [a \in Vectors, b \in Vectors |-> cosineSimilarity(a, b)]

(***************************************************************************)
(* The state.                                                              *)
(*   fallback, client, memoryStore   fields of QdrantService               *)
(*   collectionExists, collection    the networked backend: whether the    *)
(*                                   collection exists, and its points     *)
(*   cache                           the embedding:<id> keys of Redis      *)
(*   last                            the last call: its name, arguments,   *)
(*                                   outcome and the outbound calls it made*)
(***************************************************************************)
VARIABLES fallback, client, memoryStore, collectionExists, collection, cache, last

vars == <<fallback, client, memoryStore, collectionExists, collection, cache, last>>

\* QdrantService.constructor; nothing cached, no collection yet
Init ==
    /\ fallback = FALSE
    /\ client = FALSE
    /\ memoryStore = <<>>
    /\ collectionExists = FALSE
    /\ collection = <<>>
    /\ cache = [i \in Ids |-> NoVector]
    /\ last = [op |-> "constructor"]

(***************************************************************************)
(* QdrantService: the in-memory branch of each operation, as a function of *)
(* memoryStore.                                                            *)
(***************************************************************************)
\* the point built from a document by storeDocument and storeDocuments
PointOf(doc) ==
    [id |-> doc.id, vector |-> doc.embedding,
     payload |-> [title |-> doc.title, content |-> doc.content,
                  summary |-> IF doc.summary = Null THEN "" ELSE doc.summary]]

PointsOf(docs) == [i \in 1..Len(docs) |-> PointOf(docs[i])]

IdsOf(points) == {points[i].id : i \in 1..Len(points)}

\* storeDocument pushing without the filter
MemStoreDocument_PushOnly(store, doc) == store \o <<PointOf(doc)>>

\* storeDocument, fallback branch: filter out the id, then push
MemStoreDocument(store, doc) ==
    SelectSeq(store, LAMBDA p : p.id # doc.id) \o <<PointOf(doc)>>

\* storeDocuments, fallback branch: filter out the batch's ids, then push all
MemStoreDocuments(store, docs) ==
    LET points == PointsOf(docs)
        ids    == IdsOf(points)
    IN  SelectSeq(store, LAMBDA p : p.id \notin ids) \o points

\* deleteDocument, fallback branch
MemDeleteDocument(store, docId) == SelectSeq(store, LAMBDA p : p.id # docId)

\* the sort left out
SortByScore_Unsorted(rs) == rs

\* a descending sort that puts a later element before its equals
RECURSIVE SortByScore_Unstable(_)
SortByScore_Unstable(rs) ==
    IF Len(rs) <= 1 THEN rs
    ELSE LET x     == rs[Len(rs)]
             front == SortByScore_Unstable(SubSeq(rs, 1, Len(rs) - 1))
         IN  SelectSeq(front, LAMBDA r : NumLess(x.score, r.score))
               \o <<x>>
               \o SelectSeq(front, LAMBDA r : ~NumLess(x.score, r.score))

\* Array.prototype.sort((a, b) => b.score - a.score): stable, descending
RECURSIVE SortByScore(_)
SortByScore(rs) ==
    IF Len(rs) <= 1 THEN rs
    ELSE LET x     == rs[Len(rs)]
             front == SortByScore(SubSeq(rs, 1, Len(rs) - 1))
         IN  SelectSeq(front, LAMBDA r : NumGeq(r.score, x.score))
               \o <<x>>
               \o SelectSeq(front, LAMBDA r : NumLess(r.score, x.score))

\* the record searchSimilar returns for a scored point
ResultOf(r) ==
    [id |-> r.id, score |-> r.score, title |-> r.payload.title,
     content |-> r.payload.content, summary |-> r.payload.summary]

\* searchSimilar, fallback branch: map, filter, sort, slice, map
MemSearchSimilar(store, queryEmbedding, limit, scoreThreshold) ==
    LET scored == [i \in 1..Len(store) |->
                     [id |-> store[i].id,
                      score |-> Similarity[queryEmbedding, store[i].vector],
                      payload |-> store[i].payload]]
        kept   == SelectSeq(scored, LAMBDA r : NumGeq(r.score, scoreThreshold))
        sorted == SortByScore(kept)
        sliced == SubSeq(sorted, 1, Min(limit, Len(sorted)))
    IN  [i \in 1..Len(sliced) |-> ResultOf(sliced[i])]

(***************************************************************************)
(* The networked backend behind QdrantClient, from the contract of the     *)
(* vector store: points are unique by id, upsert replaces, search ranks by *)
(* cosine similarity with the same threshold and limit.                    *)
(***************************************************************************)
UpsertPoint(coll, p) == SelectSeq(coll, LAMBDA q : q.id # p.id) \o <<p>>

\* client.upsert(collectionName, {wait: true, points})
RECURSIVE ClientUpsert(_, _)
ClientUpsert(coll, points) ==
    IF Len(points) = 0 THEN coll
    ELSE ClientUpsert(UpsertPoint(coll, Head(points)), Tail(points))

\* client.delete(collectionName, {wait: true, points: [docId]})
ClientDelete(coll, docId) == SelectSeq(coll, LAMBDA p : p.id # docId)

\* client.search(collectionName, {vector, limit, score_threshold, with_payload})
ClientSearch(coll, vector, limit, scoreThreshold) ==
    LET scored == [i \in 1..Len(coll) |->
                     [id |-> coll[i].id,
                      score |-> Similarity[vector, coll[i].vector],
                      payload |-> coll[i].payload]]
        kept   == SelectSeq(scored, LAMBDA r : NumGeq(r.score, scoreThreshold))
        sorted == SortByScore(kept)
    IN  SubSeq(sorted, 1, Min(limit, Len(sorted)))

(***************************************************************************)
(* QdrantService: one action per method.  netOk says whether the call to   *)
(* the networked backend, if the method makes one, succeeds.  last.client  *)
(* counts the calls made on this.client; a method called with client null  *)
(* and fallback off raises a TypeError before any call is made.            *)
(***************************************************************************)
HandshakeSteps == {"none", "probe", "getCollections", "exists", "create"}

\* the calls initialize makes on this.client before the step `fail` fails
HandshakeCalls(fail, fb, exists) ==
    IF fail = "probe" THEN 0
    ELSE IF fail = "getCollections" THEN 1
    ELSE IF fb THEN 1
    ELSE IF fail = "exists" THEN 2
    ELSE IF exists THEN 2
    ELSE 3

\* initialize letting a failure of createCollection escape its catch
initialize_CreateEscapes(fail) ==
    /\ fail = "exists" => ~fallback
    /\ fail = "create" => ~fallback /\ ~collectionExists
    /\ IF fail = "none"
       THEN /\ client' = TRUE
            /\ fallback' = fallback
            /\ collectionExists' = (collectionExists \/ ~fallback)
       ELSE /\ client' = (fail = "create")
            /\ fallback' = (fallback \/ fail # "create")
            /\ UNCHANGED collectionExists
    /\ UNCHANGED <<memoryStore, collection, cache>>
    /\ last' = [op |-> "initialize", fail |-> fail, ok |-> fail # "create",
                result |-> IF fail = "none" THEN "client" ELSE Null,
                client |-> HandshakeCalls(fail, fallback, collectionExists)]

\* initialize turning the fallback off when the backend is reached
initialize_ResetsFallback(fail) ==
    /\ fail = "exists" => ~fallback
    /\ fail = "create" => ~fallback /\ ~collectionExists
    /\ IF fail = "none"
       THEN /\ client' = TRUE
            /\ fallback' = FALSE
            /\ collectionExists' = (collectionExists \/ ~fallback)
       ELSE /\ client' = FALSE
            /\ fallback' = TRUE
            /\ UNCHANGED collectionExists
    /\ UNCHANGED <<memoryStore, collection, cache>>
    /\ last' = [op |-> "initialize", fail |-> fail, ok |-> TRUE,
                result |-> IF fail = "none" THEN "client" ELSE Null,
                client |-> HandshakeCalls(fail, fallback, collectionExists)]

\* initialize, with ensureCollection; `fail` is the handshake step that fails
initialize(fail) ==
    /\ fail = "exists" => ~fallback
    /\ fail = "create" => ~fallback /\ ~collectionExists
    /\ IF fail = "none"
       THEN /\ client' = TRUE
            /\ fallback' = fallback
            /\ collectionExists' = (collectionExists \/ ~fallback)
       ELSE /\ client' = FALSE
            /\ fallback' = TRUE
            /\ UNCHANGED collectionExists
    /\ UNCHANGED <<memoryStore, collection, cache>>
    /\ last' = [op |-> "initialize", fail |-> fail, ok |-> TRUE,
                result |-> IF fail = "none" THEN "client" ELSE Null,
                client |-> HandshakeCalls(fail, fallback, collectionExists)]

\* what the networked branch of a method does: raises without a call when
\* client is null, else makes one call that succeeds or fails
NetCalls == IF client THEN 1 ELSE 0

storeDocument(doc, netOk) ==
    /\ IF fallback
       THEN /\ memoryStore' = MemStoreDocument(memoryStore, doc)
            /\ UNCHANGED collection
       ELSE /\ collection' = IF client /\ netOk
                             THEN ClientUpsert(collection, <<PointOf(doc)>>)
                             ELSE collection
            /\ UNCHANGED memoryStore
    /\ UNCHANGED <<fallback, client, collectionExists, cache>>
    /\ last' = [op |-> "storeDocument", doc |-> doc,
                twice |-> /\ last.op = "storeDocument"
                          /\ last.ok
                          /\ last.doc.id = doc.id
                          /\ last.doc.embedding # doc.embedding,
                ok |-> fallback \/ (client /\ netOk),
                client |-> IF fallback THEN 0 ELSE NetCalls]

storeDocuments(docs, netOk) ==
    /\ IF fallback
       THEN /\ memoryStore' = MemStoreDocuments(memoryStore, docs)
            /\ UNCHANGED collection
       ELSE /\ collection' = IF client /\ netOk
                             THEN ClientUpsert(collection, PointsOf(docs))
                             ELSE collection
            /\ UNCHANGED memoryStore
    /\ UNCHANGED <<fallback, client, collectionExists, cache>>
    /\ last' = [op |-> "storeDocuments", docs |-> docs,
                ok |-> fallback \/ (client /\ netOk),
                client |-> IF fallback THEN 0 ELSE NetCalls]

searchSimilar(queryEmbedding, limit, scoreThreshold, netOk) ==
    /\ UNCHANGED <<fallback, client, memoryStore, collectionExists, collection, cache>>
    /\ last' = [op |-> "searchSimilar", query |-> queryEmbedding, limit |-> limit,
                threshold |-> scoreThreshold,
                ok |-> fallback \/ (client /\ netOk),
                result |->
                    IF fallback
                    THEN MemSearchSimilar(memoryStore, queryEmbedding, limit, scoreThreshold)
                    ELSE IF client /\ netOk
                    THEN LET found == ClientSearch(collection, queryEmbedding,
                                                   limit, scoreThreshold)
                         IN  [i \in 1..Len(found) |-> ResultOf(found[i])]
                    ELSE <<>>,
                client |-> IF fallback THEN 0 ELSE NetCalls]

\* countDocuments over getCollectionInfo: info.points_count || 0, and 0 when
\* getCollectionInfo raises
countDocuments(netOk) ==
    /\ UNCHANGED <<fallback, client, memoryStore, collectionExists, collection, cache>>
    /\ last' = [op |-> "countDocuments", ok |-> TRUE,
                result |-> IF fallback THEN Len(memoryStore)
                           ELSE IF client /\ netOk THEN Len(collection)
                           ELSE 0,
                client |-> IF fallback THEN 0 ELSE NetCalls]

deleteDocument(docId, netOk) ==
    /\ IF fallback
       THEN /\ memoryStore' = MemDeleteDocument(memoryStore, docId)
            /\ UNCHANGED collection
       ELSE /\ collection' = IF client /\ netOk
                             THEN ClientDelete(collection, docId)
                             ELSE collection
            /\ UNCHANGED memoryStore
    /\ UNCHANGED <<fallback, client, collectionExists, cache>>
    /\ last' = [op |-> "deleteDocument", id |-> docId,
                ok |-> fallback \/ (client /\ netOk),
                client |-> IF fallback THEN 0 ELSE NetCalls]

\* clearCollection emptying the embedding cache as well
clearCollection_ClearsCache(netOk) ==
    /\ IF fallback
       THEN /\ memoryStore' = <<>>
            /\ UNCHANGED collection
       ELSE /\ collection' = IF client /\ netOk THEN <<>> ELSE collection
            /\ UNCHANGED memoryStore
    /\ cache' = [i \in Ids |-> NoVector]
    /\ UNCHANGED <<fallback, client, collectionExists>>
    /\ last' = [op |-> "clearCollection",
                ok |-> fallback \/ (client /\ netOk),
                client |-> IF fallback THEN 0 ELSE NetCalls]

clearCollection(netOk) ==
    /\ IF fallback
       THEN /\ memoryStore' = <<>>
            /\ UNCHANGED collection
       ELSE /\ collection' = IF client /\ netOk THEN <<>> ELSE collection
            /\ UNCHANGED memoryStore
    /\ UNCHANGED <<fallback, client, collectionExists, cache>>
    /\ last' = [op |-> "clearCollection",
                ok |-> fallback \/ (client /\ netOk),
                client |-> IF fallback THEN 0 ELSE NetCalls]

Next ==
    \/ \E fail \in HandshakeSteps : initialize(fail)
    \/ \E doc \in StoreDocs, netOk \in BOOLEAN : storeDocument(doc, netOk)
    \/ \E docs \in Batches, netOk \in BOOLEAN : storeDocuments(docs, netOk)
    \/ \E q \in Queries, k \in TopKs, t \in Thresholds, netOk \in BOOLEAN :
          searchSimilar(q, k, t, netOk)
    \/ \E netOk \in BOOLEAN : countDocuments(netOk)
    \/ \E docId \in Ids, netOk \in BOOLEAN : deleteDocument(docId, netOk)
    \/ \E netOk \in BOOLEAN : clearCollection(netOk)

Spec == Init /\ [][Next]_vars

(***************************************************************************)
(* Properties of the vector store (specification Spec).                    *)
(***************************************************************************)
StoreOps == {"storeDocument", "storeDocuments", "searchSimilar", "deleteDocument",
             "clearCollection", "countDocuments"}

\* the places of memoryStore that hold the id
PlacesOf(docId) == {i \in 1..Len(memoryStore) : memoryStore[i].id = docId}

\* C1: in fallback mode, after storeDocument(doc) -- in particular after the
\* second of two calls with the same id and different embeddings -- the store
\* holds exactly one point with doc's id, and it carries the vector and the
\* payload of that call.
C1_IdempotentUpsert ==
    (last.op = "storeDocument" /\ fallback) =>
        /\ Cardinality(PlacesOf(last.doc.id)) = 1
        /\ \A i \in PlacesOf(last.doc.id) :
              /\ memoryStore[i].vector = last.doc.embedding
              /\ memoryStore[i].payload.title = last.doc.title
              /\ memoryStore[i].payload.content = last.doc.content
              /\ memoryStore[i].payload.summary =
                    (IF last.doc.summary = Null THEN "" ELSE last.doc.summary)

\* the second of two storeDocument calls with one id and two embeddings, over
\* a store that holds another point as well
C1_Witness ==
    /\ last.op = "storeDocument"
    /\ fallback
    /\ last.twice
    /\ Len(memoryStore) > 1

\* C2: in fallback mode no two points of the in-memory store share an id,
\* whatever calls were made, a batch naming one id twice included.
C2_UniqueIds ==
    fallback => \A i, j \in 1..Len(memoryStore) :
                   i # j => memoryStore[i].id # memoryStore[j].id

\* C3: every fallback-mode searchSimilar(q, k, t) returns at most k results,
\* each with a score >= t, in an order of non-increasing scores.
C3_SearchBounds ==
    (last.op = "searchSimilar" /\ fallback) =>
        LET r == last.result
        IN  /\ Len(r) <= last.limit
            /\ \A i \in 1..Len(r) : NumGeq(r[i].score, last.threshold)
            /\ \A i \in 1..(Len(r) - 1) : NumGeq(r[i].score, r[i + 1].score)

\* a search at the default threshold whose two results come back in the
\* reverse of their insertion order
C3_Witness ==
    /\ last.op = "searchSimilar"
    /\ fallback
    /\ Len(last.result) = 2
    /\ NumLess(last.result[2].score, last.result[1].score)
    /\ Len(memoryStore) > 1
    /\ last.threshold = DefaultScoreThreshold
    /\ \E i, j \in 1..Len(memoryStore) :
          /\ i < j
          /\ memoryStore[i].id = last.result[2].id
          /\ memoryStore[j].id = last.result[1].id
          /\ memoryStore[i].id # memoryStore[j].id

\* C7: a handshake failing at any step leaves initialize returning null, not
\* raising, with fallback on; and in fallback mode every store operation
\* succeeds on the in-memory store and makes no call on the client.
C7_FallbackTransparent ==
    /\ (last.op = "initialize" /\ last.fail # "none") =>
          (last.ok /\ last.result = Null /\ fallback /\ ~client)
    /\ (last.op \in StoreOps /\ fallback) => (last.ok /\ last.client = 0)
    /\ (last.op = "countDocuments" /\ fallback) => last.result = Len(memoryStore)
    /\ (last.op = "clearCollection" /\ fallback) => memoryStore = <<>>
    /\ (last.op = "deleteDocument" /\ fallback) => PlacesOf(last.id) = {}
    /\ (last.op = "storeDocuments" /\ fallback) =>
          \A i \in 1..Len(last.docs) : PlacesOf(last.docs[i].id) # {}

\* after a failed handshake, a search answered from the in-memory store
C7_Witness ==
    /\ fallback
    /\ ~client
    /\ last.op = "searchSimilar"
    /\ last.ok
    /\ last.client = 0
    /\ Len(last.result) > 0
    /\ collection = <<>>

\* C8: the fallback flag, once true, stays true, also across an initialize
\* that reaches the backend; only initialize changes the mode, also when a
\* networked call fails; in fallback mode no other method calls the backend.
C8_ModePermanent ==
    [][/\ fallback => fallback'
       /\ fallback' # fallback => last'.op = "initialize"
       /\ (fallback /\ last'.op # "initialize") => last'.client = 0
       /\ (last'.op \in StoreOps /\ ~last'.ok) => (fallback' = fallback /\ client' = client)
      ]_vars

\* an initialize that reached the backend with the fallback already on
C8_Witness ==
    /\ last.op = "initialize"
    /\ last.fail = "none"
    /\ fallback
    /\ client
    /\ Len(memoryStore) > 0

(***************************************************************************)
(* cosineSimilarity on its own (specification SpecCos): the function       *)
(* applied to every pair of vectors of up to MaxDim components, a missing  *)
(* vector included.                                                        *)
(***************************************************************************)
MaxDim == 3

Components == {-1, 0, 1}

CosVectors == {NoVector} \cup UNION {[1..n -> Components] : n \in 1..MaxDim}

\* the state before a call: the two arguments are chosen
InitCos ==
    /\ fallback = FALSE
    /\ client = FALSE
    /\ memoryStore = <<>>
    /\ collectionExists = FALSE
    /\ collection = <<>>
    /\ cache = [i \in Ids |-> NoVector]
    /\ \E a \in CosVectors, b \in CosVectors :
          last = [op |-> "arguments", a |-> a, b |-> b]

\* the call of cosineSimilarity on the chosen arguments; it raises on none
cosine ==
    /\ last.op = "arguments"
    /\ UNCHANGED <<fallback, client, memoryStore, collectionExists, collection, cache>>
    /\ last' = [op |-> "cosineSimilarity", a |-> last.a, b |-> last.b, ok |-> TRUE,
                result |-> cosineSimilarity(last.a, last.b)]

NextCos == cosine

SpecCos == InitCos /\ [][NextCos]_vars

AllZero(v) == \A i \in 1..Len(v) : v[i] = 0

\* C4: cosineSimilarity(a, b) is 0 for orthogonal vectors, 1 for two
\* identical non-zero vectors, and 0, without raising, when a vector is all
\* zeros or missing or the lengths differ.
C4_CosineCorrect ==
    last.op = "cosineSimilarity" =>
        LET a == last.a
            b == last.b
        IN  /\ last.ok
            /\ (a = NoVector \/ b = NoVector \/ Len(a) # Len(b)
                  \/ AllZero(a) \/ AllZero(b)) => last.result = Zero
            /\ (Len(a) = Len(b) /\ DotTo(a, b, Len(a)) = 0) => last.result = Zero
            /\ (a = b /\ a # NoVector /\ ~AllZero(a)) => last.result = One

\* the part of C4 that the code meets: 0 for orthogonal, zero, missing and
\* mismatched vectors, never raising; and 1 for identical vectors whose
\* squared norm is 1
C4_ZeroCases ==
    last.op = "cosineSimilarity" =>
        LET a == last.a
            b == last.b
        IN  /\ last.ok
            /\ (a = NoVector \/ b = NoVector \/ Len(a) # Len(b)
                  \/ AllZero(a) \/ AllZero(b)) => last.result = Zero
            /\ (Len(a) = Len(b) /\ DotTo(a, b, Len(a)) = 0) => last.result = Zero
            /\ (a = b /\ a # NoVector /\ DotTo(a, a, Len(a)) = 1) => last.result = One

\* two identical vectors scored above 1
C4_AboveOne ==
    /\ last.op = "cosineSimilarity"
    /\ last.a = last.b
    /\ NumLess(One, last.result)

(***************************************************************************)
(* EmbeddingsService, and the embedding cache of RedisService.  A text is  *)
(* the sequence of its parts, <<>> the blank text; the titles, summaries   *)
(* and contents of the model are shorter than the cuts at 6000 and 8192    *)
(* characters.                                                             *)
(***************************************************************************)
Present(x) == x # Null /\ x # ""

\* EmbeddingsService.createEmbeddingText
createEmbeddingText(document) ==
    (IF Present(document.title) THEN <<"Title: ", document.title>> ELSE <<>>)
      \o (IF Present(document.summary) THEN <<"Summary: ", document.summary>> ELSE <<>>)
      \o (IF Present(document.content) THEN <<"Content: ", document.content>> ELSE <<>>)

\* the queries of the model: a blank one, and two the provider can embed
QueryTexts == {<<>>, <<"q1">>, <<"q2">>, <<"q3">>}

\* the vector the embedding model answers for a text: a function of the text
EmbeddingModel(text) ==
    IF \E d \in StoreDocs : createEmbeddingText(d) = text
    THEN (CHOOSE d \in StoreDocs : createEmbeddingText(d) = text).embedding
    ELSE IF text = <<"q1">> THEN <<1, 0>>
    ELSE IF text = <<"q3">> THEN <<-1, 1>>
    ELSE <<1, 1>>

\* what the outbound call does: answers the vector, fails, or answers an
\* empty data array
ProviderOutcomes == {"ok", "error", "empty"}

\* EmbeddingsService.generateEmbedding over generateEmbeddings([text]): a
\* blank text raises before the call; embeddings[0] of an empty answer is
\* undefined.  calls counts the outbound calls.
generateEmbedding(text, outcome) ==
    IF text = <<>> THEN [ok |-> FALSE, value |-> NoVector, calls |-> 0]
    ELSE IF outcome = "error" THEN [ok |-> FALSE, value |-> NoVector, calls |-> 1]
    ELSE IF outcome = "empty" THEN [ok |-> TRUE, value |-> NoVector, calls |-> 1]
    ELSE [ok |-> TRUE, value |-> EmbeddingModel(text), calls |-> 1]

\* a lookup that never finds the entry
getCachedEmbedding_AlwaysMiss(c, docId, readOk) == NoVector

\* RedisService.getCachedEmbedding: the parsed entry, null when the key is
\* absent and null when the read fails
getCachedEmbedding(c, docId, readOk) == IF readOk THEN c[docId] ELSE NoVector

\* RedisService.cacheEmbedding: setEx of the stringified vector; raises when
\* the write fails
cacheEmbedding(c, docId, embedding, writeOk) ==
    IF writeOk
    THEN [ok |-> TRUE, cache |-> [c EXCEPT ![docId] = embedding]]
    ELSE [ok |-> FALSE, cache |-> c]

\* what the environment does to the calls made for one document: the cache
\* read and the cache write succeed or fail, the provider answers the vector
\* or fails
Faults == [read : BOOLEAN, provider : {"ok", "error"}, write : BOOLEAN]

\* the document with the vector of its present text, whatever was handed in
WithEmbedding_Fresh(document, embedding) ==
    [id |-> document.id, title |-> document.title, content |-> document.content,
     summary |-> document.summary,
     embedding |-> EmbeddingModel(createEmbeddingText(document))]

\* {...document, embedding}
WithEmbedding(document, embedding) ==
    [id |-> document.id, title |-> document.title, content |-> document.content,
     summary |-> document.summary, embedding |-> embedding]

\* the documents handed to ingestion: no embedding yet
RagDocs == {[id |-> d.id, title |-> d.title, content |-> d.content,
             summary |-> d.summary] : d \in StoreDocs}

RagBatches == SeqsUpTo(RagDocs, MaxBatch)

\* the body shared by processAndStoreDocument and the loop of
\* processAndStoreDocuments: cache lookup, else text, provider, cache write
EmbedDocument(c, document, f) ==
    LET cached == getCachedEmbedding(c, document.id, f.read)
    IN  IF cached # NoVector
        THEN [ok |-> TRUE, embedding |-> cached, cache |-> c,
              step |-> [step |-> "hit", read |-> f.read, provider |-> 0]]
        ELSE LET answer == generateEmbedding(createEmbeddingText(document), f.provider)
                 written == cacheEmbedding(c, document.id, answer.value, f.write)
             IN  IF ~answer.ok
                 THEN [ok |-> FALSE, embedding |-> NoVector, cache |-> c,
                       step |-> [step |-> IF answer.calls = 0 THEN "noText"
                                          ELSE "providerError",
                                 read |-> f.read, provider |-> answer.calls]]
                 ELSE IF ~written.ok
                 THEN [ok |-> FALSE, embedding |-> NoVector, cache |-> c,
                       step |-> [step |-> "cacheWriteFailed", read |-> f.read,
                                 provider |-> answer.calls]]
                 ELSE [ok |-> TRUE, embedding |-> answer.value, cache |-> written.cache,
                       step |-> [step |-> "embedded", read |-> f.read,
                                 provider |-> answer.calls]]

\* the faults the calls for one document can meet, one choice per outcome: a
\* failing read of an absent key is the read of an absent key, and a call
\* that is not made meets no fault
EffectiveFaults(c, document) ==
    {f \in Faults :
        LET hit == f.read /\ c[document.id] # NoVector
        IN  /\ c[document.id] = NoVector => f.read
            /\ hit => (f.provider = "ok" /\ f.write)
            /\ (~hit /\ (createEmbeddingText(document) = <<>> \/ f.provider # "ok"))
                  => f.write}

\* the loop's try/catch pushing every document, the failed ones included
Collected_KeepsFailed(out, document, r) ==
    Append(out, WithEmbedding(document, r.embedding))

\* the loop's try/catch: a document is pushed when nothing raised for it
Collected(out, document, r) ==
    IF r.ok THEN Append(out, WithEmbedding(document, r.embedding)) ELSE out

\* the awaited calls made for document i, in the order of the code, each as
\* <<callee, i>>: the lookup; on a miss generateEmbedding; when that answered,
\* cacheEmbedding
CallsOf(step, i) ==
    IF step.step = "hit" THEN << <<"getCachedEmbedding", i>> >>
    ELSE IF step.step \in {"noText", "providerError"}
    THEN << <<"getCachedEmbedding", i>>, <<"generateEmbedding", i>> >>
    ELSE << <<"getCachedEmbedding", i>>, <<"generateEmbedding", i>>,
            <<"cacheEmbedding", i>> >>

\* the lookup of a document started before the last call for the document
\* before it has finished
Sequenced_Overlapping(calls, more) ==
    IF Len(calls) = 0 THEN more
    ELSE SubSeq(calls, 1, Len(calls) - 1) \o <<Head(more)>>
           \o <<calls[Len(calls)]>> \o Tail(more)

\* each call is awaited: the calls for a document follow those made so far
Sequenced(calls, more) == calls \o more

\* storeDocuments called whatever the length of documentsWithEmbeddings
StoreCall_Always(calls, callee, n) == Append(calls, <<callee, n>>)

\* if (documentsWithEmbeddings.length > 0) await storeDocuments(...): the
\* call, with the number of documents handed to it
StoreCall(calls, callee, n) ==
    IF n > 0 THEN Append(calls, <<callee, n>>) ELSE calls

\* the loop of processAndStoreDocuments from document i on: every way it can
\* run, as the cache it leaves, documentsWithEmbeddings, the steps taken and
\* the calls made
RECURSIVE EmbedFrom(_, _, _)
EmbedFrom(i, documents, acc) ==
    IF i > Len(documents) THEN {acc}
    ELSE UNION {
           LET r == EmbedDocument(acc.cache, documents[i], f)
           IN  EmbedFrom(i + 1, documents,
                         [cache |-> r.cache,
                          out   |-> Collected(acc.out, documents[i], r),
                          steps |-> Append(acc.steps, r.step),
                          calls |-> Sequenced(acc.calls, CallsOf(r.step, i))])
           : f \in EffectiveFaults(acc.cache, documents[i])}

\* the query embedding looked up in, and written to, the cache
EmbedQuery_Cached(c, query, outcome) ==
    LET answer == generateEmbedding(query, outcome)
    IN  [ok |-> answer.ok /\ answer.value # NoVector, value |-> answer.value,
         provider |-> answer.calls,
         cache |-> IF answer.ok /\ answer.value # NoVector
                   THEN [c EXCEPT !["a"] = answer.value] ELSE c,
         cacheReads |-> 1,
         cacheWrites |-> IF answer.ok /\ answer.value # NoVector THEN 1 ELSE 0]

\* the query embedding handed on without the test for a missing one
EmbedQuery_Unchecked(c, query, outcome) ==
    LET answer == generateEmbedding(query, outcome)
    IN  [ok |-> answer.ok, value |-> answer.value,
         provider |-> answer.calls, cache |-> c, cacheReads |-> 0, cacheWrites |-> 0]

\* retrieveRelevantDocuments, lines 19-23: the provider is asked directly,
\* and an embedding that is missing raises
EmbedQuery(c, query, outcome) ==
    LET answer == generateEmbedding(query, outcome)
    IN  [ok |-> answer.ok /\ answer.value # NoVector, value |-> answer.value,
         provider |-> answer.calls, cache |-> c, cacheReads |-> 0, cacheWrites |-> 0]

(***************************************************************************)
(* RAGService (specifications SpecRag and SpecRetrieve): one action per    *)
(* method, run after the services were initialised, as server.js does      *)
(* before it listens.  Each action takes the faults its calls meet: per    *)
(* document those of EffectiveFaults, and netOk for the call on the        *)
(* networked store.                                                        *)
(***************************************************************************)
Ready == fallback \/ client

\* initializeServices: the one call of qdrantService.initialize, at startup
initializeServices(fail) ==
    /\ ~Ready
    /\ initialize(fail)

retrieveRelevantDocuments(query, topK, scoreThreshold, outcome, netOk) ==
    /\ Ready
    /\ LET e == EmbedQuery(cache, query, outcome)
       IN  /\ (~e.ok \/ fallback) => netOk
           /\ query = <<>> => outcome = "ok"
           /\ cache' = e.cache
           /\ last' = [op |-> "retrieveRelevantDocuments", query |-> query,
                       limit |-> topK, threshold |-> scoreThreshold,
                       outcome |-> outcome,
                       ok |-> e.ok /\ netOk,
                       result |->
                           IF ~e.ok \/ ~netOk THEN <<>>
                           ELSE IF fallback
                           THEN MemSearchSimilar(memoryStore, e.value, topK, scoreThreshold)
                           ELSE LET found == ClientSearch(collection, e.value,
                                                          topK, scoreThreshold)
                                IN  [i \in 1..Len(found) |-> ResultOf(found[i])],
                       provider |-> e.provider,
                       searched |-> e.ok,
                       client |-> IF e.ok /\ ~fallback THEN 1 ELSE 0,
                       cacheReads |-> e.cacheReads,
                       cacheWrites |-> e.cacheWrites]
    /\ UNCHANGED <<fallback, client, memoryStore, collectionExists, collection>>

\* processAndStoreDocument storing the point before the embedding is there
processAndStoreDocument_StoresFirst(document, netOk) ==
    /\ Ready
    /\ \E f \in EffectiveFaults(cache, document) :
          LET r == EmbedDocument(cache, document, f)
              d == WithEmbedding(document, r.embedding)
          IN  /\ (~r.ok \/ fallback) => netOk
              /\ cache' = r.cache
              /\ memoryStore' = IF fallback
                                THEN MemStoreDocument(memoryStore, d)
                                ELSE memoryStore
              /\ collection' = IF ~fallback /\ netOk
                               THEN ClientUpsert(collection, <<PointOf(d)>>)
                               ELSE collection
              /\ last' = [op |-> "processAndStoreDocument", docs |-> <<document>>,
                          steps |-> <<r.step>>, netOk |-> netOk,
                          calls |-> StoreCall(CallsOf(r.step, 1), "storeDocument",
                                              IF r.ok THEN 1 ELSE 0),
                          ok |-> r.ok /\ netOk,
                          result |-> IF r.ok THEN 1 ELSE 0,
                          client |-> IF r.ok /\ ~fallback THEN 1 ELSE 0]
    /\ UNCHANGED <<fallback, client, collectionExists>>

processAndStoreDocument(document, netOk) ==
    /\ Ready
    /\ \E f \in EffectiveFaults(cache, document) :
          LET r == EmbedDocument(cache, document, f)
              d == WithEmbedding(document, r.embedding)
          IN  /\ (~r.ok \/ fallback) => netOk
              /\ cache' = r.cache
              /\ memoryStore' = IF r.ok /\ fallback
                                THEN MemStoreDocument(memoryStore, d)
                                ELSE memoryStore
              /\ collection' = IF r.ok /\ ~fallback /\ netOk
                               THEN ClientUpsert(collection, <<PointOf(d)>>)
                               ELSE collection
              /\ last' = [op |-> "processAndStoreDocument", docs |-> <<document>>,
                          steps |-> <<r.step>>, netOk |-> netOk,
                          calls |-> StoreCall(CallsOf(r.step, 1), "storeDocument",
                                              IF r.ok THEN 1 ELSE 0),
                          ok |-> r.ok /\ netOk,
                          result |-> IF r.ok THEN 1 ELSE 0,
                          client |-> IF r.ok /\ ~fallback THEN 1 ELSE 0]
    /\ UNCHANGED <<fallback, client, collectionExists>>

processAndStoreDocuments(documents, netOk) ==
    /\ Ready
    /\ \E r \in EmbedFrom(1, documents, [cache |-> cache, out |-> <<>>,
                                         steps |-> <<>>, calls |-> <<>>]) :
          LET n == Len(r.out)
          IN  /\ (n = 0 \/ fallback) => netOk
              /\ cache' = r.cache
              /\ memoryStore' = IF n > 0 /\ fallback
                                THEN MemStoreDocuments(memoryStore, r.out)
                                ELSE memoryStore
              /\ collection' = IF n > 0 /\ ~fallback /\ netOk
                               THEN ClientUpsert(collection, PointsOf(r.out))
                               ELSE collection
              /\ last' = [op |-> "processAndStoreDocuments", docs |-> documents,
                          steps |-> r.steps, netOk |-> netOk,
                          calls |-> StoreCall(r.calls, "storeDocuments", n),
                          ok |-> netOk,
                          result |-> n,
                          client |-> IF n > 0 /\ ~fallback THEN 1 ELSE 0]
    /\ UNCHANGED <<fallback, client, collectionExists>>

\* clearAllDocuments: clearCollection, then clearAllEmbeddings (keys, del);
\* the first call that fails ends it
\* clearAllDocuments clearing the store and leaving the cache
clearAllDocuments_StoreOnly(netOk, cacheOk) ==
    /\ Ready
    /\ fallback => netOk
    /\ ~netOk => cacheOk
    /\ memoryStore' = IF fallback THEN <<>> ELSE memoryStore
    /\ collection' = IF ~fallback /\ netOk THEN <<>> ELSE collection
    /\ cache' = cache
    /\ last' = [op |-> "clearAllDocuments", ok |-> netOk /\ cacheOk,
                removed |-> 0,
                client |-> IF fallback THEN 0 ELSE 1]
    /\ UNCHANGED <<fallback, client, collectionExists>>

\* RAGService.clearAllDocuments: clearCollection, then clearAllEmbeddings;
\* removed is the number of keys clearAllEmbeddings deleted
clearAllDocuments(netOk, cacheOk) ==
    /\ Ready
    /\ fallback => netOk
    /\ ~netOk => cacheOk
    /\ memoryStore' = IF fallback THEN <<>> ELSE memoryStore
    /\ collection' = IF ~fallback /\ netOk THEN <<>> ELSE collection
    /\ cache' = IF netOk /\ cacheOk THEN [i \in Ids |-> NoVector] ELSE cache
    /\ last' = [op |-> "clearAllDocuments", ok |-> netOk /\ cacheOk,
                removed |-> IF netOk /\ cacheOk
                            THEN Cardinality({i \in Ids : cache[i] # NoVector})
                            ELSE 0,
                client |-> IF fallback THEN 0 ELSE 1]
    /\ UNCHANGED <<fallback, client, collectionExists>>

\* the 7 days of an entry's setEx are over
expire(docId) ==
    /\ cache[docId] # NoVector
    /\ cache' = [cache EXCEPT ![docId] = NoVector]
    /\ last' = [op |-> "expire", id |-> docId]
    /\ UNCHANGED <<fallback, client, memoryStore, collectionExists, collection>>

\* ingestion: single documents and batches, clearing, expiry
NextRag ==
    \/ \E fail \in HandshakeSteps : initializeServices(fail)
    \/ \E document \in RagDocs, netOk \in BOOLEAN :
          processAndStoreDocument(document, netOk)
    \/ \E documents \in RagBatches, netOk \in BOOLEAN :
          processAndStoreDocuments(documents, netOk)
    \/ \E netOk \in BOOLEAN, cacheOk \in BOOLEAN : clearAllDocuments(netOk, cacheOk)
    \/ \E docId \in Ids : expire(docId)

SpecRag == Init /\ [][NextRag]_vars

\* retrieval, over the stores and caches that single-document ingestion,
\* clearing and expiry leave
NextRetrieve ==
    \/ \E fail \in HandshakeSteps : initializeServices(fail)
    \/ \E q \in QueryTexts, k \in TopKs, t \in Thresholds,
          outcome \in ProviderOutcomes, netOk \in BOOLEAN :
          retrieveRelevantDocuments(q, k, t, outcome, netOk)
    \/ \E document \in RagDocs, netOk \in BOOLEAN :
          processAndStoreDocument(document, netOk)
    \/ \E netOk \in BOOLEAN, cacheOk \in BOOLEAN : clearAllDocuments(netOk, cacheOk)
    \/ \E docId \in Ids : expire(docId)

SpecRetrieve == Init /\ [][NextRetrieve]_vars

(***************************************************************************)
(* Properties of ingestion (SpecRag) and of retrieval (SpecRetrieve).      *)
(***************************************************************************)
Ingestions == {"processAndStoreDocument", "processAndStoreDocuments"}

Obtained == {"hit", "embedded"}

\* the ids whose embedding the call recorded in l obtained
ObtainedBy(l) ==
    IF l.op \in Ingestions
    THEN {l.docs[i].id : i \in {j \in 1..Len(l.docs) : l.steps[j].step \in Obtained}}
    ELSE {}

\* the points of the store the service is working on
Points == IF fallback THEN memoryStore ELSE collection

\* C5: when an id is ingested again right after an ingestion that obtained
\* its embedding -- by the call before, single or batch, or earlier in the
\* same batch -- and the cache answers the lookup, the embedding comes from
\* the cache and the provider is not called for it: one provider call at
\* most over the two ingestions.
C5_CacheShortCircuit ==
    [][last'.op \in Ingestions =>
          \A j \in 1..Len(last'.docs) :
             LET id == last'.docs[j].id
                 before == \/ id \in ObtainedBy(last)
                           \/ \E i \in 1..(j - 1) :
                                 /\ last'.docs[i].id = id
                                 /\ last'.steps[i].step \in Obtained
             IN  (before /\ last'.steps[j].read) =>
                    /\ last'.steps[j].step = "hit"
                    /\ last'.steps[j].provider = 0
      ]_vars

\* a batch naming one id twice: the provider embeds the first document, its
\* only call, and the second takes the vector from the cache
C5_Witness ==
    /\ last.op = "processAndStoreDocuments"
    /\ Len(last.docs) = 2
    /\ last.docs[1].id = last.docs[2].id
    /\ last.docs[1] # last.docs[2]
    /\ last.steps[1].step = "embedded"
    /\ last.steps[1].provider = 1
    /\ last.steps[2].step = "hit"
    /\ last.steps[2].provider = 0
    /\ last.ok

\* C6: a processAndStoreDocuments call whose only faults are provider
\* failures (the cache answers, the store takes the upsert) does not fail,
\* returns the number of documents whose embedding was obtained, and leaves
\* each of those in the store; a document whose embedding failed is absent
\* unless its id was stored before or is that of another document of the
\* batch that succeeded.
C6_PartialFailure ==
    [][(/\ last'.op = "processAndStoreDocuments"
        /\ last'.netOk
        /\ \A j \in 1..Len(last'.docs) :
              /\ last'.steps[j].read
              /\ last'.steps[j].step \in Obtained \cup {"providerError"})
       =>
       LET docs == last'.docs
           good == {j \in 1..Len(docs) : last'.steps[j].step \in Obtained}
       IN  /\ last'.ok
           /\ last'.result = Cardinality(good)
           /\ \A j \in good :
                 \E i \in 1..Len(Points') : Points'[i].id = docs[j].id
           /\ \A j \in good :
                 (\A k \in good : k > j => docs[k].id # docs[j].id) =>
                    \E i \in 1..Len(Points') :
                       /\ Points'[i].id = docs[j].id
                       /\ Points'[i].payload.title = docs[j].title
                       /\ Points'[i].payload.content = docs[j].content
           /\ \A j \in (1..Len(docs)) \ good :
                 (/\ \A i \in 1..Len(Points) : Points[i].id # docs[j].id
                  /\ \A k \in good : docs[k].id # docs[j].id)
                 => \A i \in 1..Len(Points') : Points'[i].id # docs[j].id
      ]_vars

\* a batch of two: the provider fails for the first document, which stays
\* out of the store, and the second is embedded and stored; the count is 1
C6_Witness ==
    /\ last.op = "processAndStoreDocuments"
    /\ Len(last.docs) = 2
    /\ last.steps[1].step = "providerError"
    /\ last.steps[2].step = "embedded"
    /\ last.ok
    /\ last.result = 1
    /\ Len(Points) = 1
    /\ Points[1].id = last.docs[2].id
    /\ Points[1].id # last.docs[1].id

bothStoreDocument(doc) ==
    /\ memoryStore' = MemStoreDocument(memoryStore, doc)
    /\ collection' = ClientUpsert(collection, <<PointOf(doc)>>)
    /\ last' = [op |-> "storeDocument", mem |-> TRUE, net |-> TRUE]
    /\ UNCHANGED <<fallback, client, collectionExists, cache>>

bothStoreDocuments(docs) ==
    /\ memoryStore' = MemStoreDocuments(memoryStore, docs)
    /\ collection' = ClientUpsert(collection, PointsOf(docs))
    /\ last' = [op |-> "storeDocuments", mem |-> TRUE, net |-> TRUE]
    /\ UNCHANGED <<fallback, client, collectionExists, cache>>

bothDeleteDocument(docId) ==
    /\ memoryStore' = MemDeleteDocument(memoryStore, docId)
    /\ collection' = ClientDelete(collection, docId)
    /\ last' = [op |-> "deleteDocument", mem |-> TRUE, net |-> TRUE]
    /\ UNCHANGED <<fallback, client, collectionExists, cache>>

bothClearCollection ==
    /\ memoryStore' = <<>>
    /\ collection' = <<>>
    /\ last' = [op |-> "clearCollection", mem |-> TRUE, net |-> TRUE]
    /\ UNCHANGED <<fallback, client, collectionExists, cache>>

bothCountDocuments ==
    /\ last' = [op |-> "countDocuments", mem |-> Len(memoryStore),
                net |-> Len(collection)]
    /\ UNCHANGED <<fallback, client, memoryStore, collectionExists, collection, cache>>

bothSearchSimilar(queryEmbedding, limit, scoreThreshold) ==
    /\ last' = [op |-> "searchSimilar",
                mem |-> MemSearchSimilar(memoryStore, queryEmbedding, limit,
                                         scoreThreshold),
                net |-> LET found == ClientSearch(collection, queryEmbedding,
                                                  limit, scoreThreshold)
                        IN  [i \in 1..Len(found) |-> ResultOf(found[i])]]
    /\ UNCHANGED <<fallback, client, memoryStore, collectionExists, collection, cache>>

NextEquiv ==
    \/ \E doc \in StoreDocs : bothStoreDocument(doc)
    \/ \E docs \in Batches : bothStoreDocuments(docs)
    \/ \E docId \in Ids : bothDeleteDocument(docId)
    \/ bothClearCollection
    \/ bothCountDocuments
    \/ \E q \in Queries, k \in TopKs, t \in Thresholds : bothSearchSimilar(q, k, t)

SpecEquiv == Init /\ [][NextEquiv]_vars

\* C9: after the same sequence of upsert, batch upsert, delete, clear, count
\* and search calls with the same arguments, the call on the fallback store
\* and the call on the networked store return the same result.
C9_ModesEquivalent ==
    last.op \in StoreOps => last.mem = last.net

\* the part of C9 that the code meets: as long as the in-memory store holds
\* no id twice, the two stores hold the same points in the same order and
\* the two calls return the same result
C9_EquivalentWhileUnique ==
    (\A i, j \in 1..Len(memoryStore) : i # j => memoryStore[i].id # memoryStore[j].id)
       => /\ memoryStore = collection
          /\ last.op \in StoreOps => last.mem = last.net

\* C11: when the provider fails, or answers without a vector, for the query
\* (and when the query is blank, so that no call is made),
\* retrieveRelevantDocuments raises: it returns no list and searchSimilar is
\* not invoked, so no call reaches the networked store either.
C11_NoEmbeddingNoSearch ==
    (/\ last.op = "retrieveRelevantDocuments"
     /\ (last.outcome # "ok" \/ last.query = <<>>))
    => /\ ~last.ok
       /\ ~last.searched
       /\ last.client = 0
       /\ last.result = <<>>

\* the provider answered the query with an empty data array, over a store
\* that holds a point the search would have found
C11_Witness ==
    /\ last.op = "retrieveRelevantDocuments"
    /\ last.outcome = "empty"
    /\ last.provider = 1
    /\ last.threshold = Zero
    /\ last.limit > 0
    /\ ~last.ok
    /\ Len(Points) > 0

\* the places of the call sequence of the last call where it calls callee
CallsTo(callee) == {k \in 1..Len(last.calls) : last.calls[k][1] = callee}

\* C12: a processAndStoreDocuments call calls storeDocuments at most once,
\* as its last call, after the lookup (and, on a miss, the provider call) of
\* every document of the batch; the count it returns is the number of
\* documents handed to that storeDocuments call; and when the count is 0
\* storeDocuments is not called and nothing reaches the networked store.
C12_SingleStoreCall ==
    last.op = "processAndStoreDocuments" =>
        /\ Cardinality(CallsTo("storeDocuments")) <= 1
        /\ \A k \in CallsTo("storeDocuments") :
              /\ k = Len(last.calls)
              /\ last.calls[k][2] = last.result
              /\ \A i \in 1..Len(last.docs) :
                    \E j \in 1..(k - 1) : last.calls[j] = <<"getCachedEmbedding", i>>
              /\ \A i \in 1..Len(last.docs) :
                    last.steps[i].provider = 1 =>
                       \E j \in 1..(k - 1) : last.calls[j] = <<"generateEmbedding", i>>
        /\ last.result = 0 => (CallsTo("storeDocuments") = {} /\ last.client = 0)
        /\ last.result > 0 => CallsTo("storeDocuments") # {}

\* a batch of two: one document dropped, the other handed to the one
\* storeDocuments call, made after both lookups and both provider calls
C12_Witness ==
    /\ last.op = "processAndStoreDocuments"
    /\ Len(last.docs) = 2
    /\ last.steps[1].provider = 1
    /\ last.steps[2].provider = 1
    /\ last.result = 1
    /\ last.ok
    /\ Len(last.calls) >= 5
    /\ last.calls[Len(last.calls)] = <<"storeDocuments", 1>>

\* the place of a callee in the code of the loop body
RankOf(callee) ==
    IF callee = "getCachedEmbedding" THEN 1
    ELSE IF callee = "generateEmbedding" THEN 2
    ELSE 3

\* C20: in one processAndStoreDocuments call every call is awaited before
\* the next is made, and the calls come document by document in the order
\* of the input: lookup, provider call, cache write of document i, all
\* before the lookup of document i+1; every document is looked up, and
\* the provider is called at most once per document.
C20_Sequential ==
    last.op = "processAndStoreDocuments" =>
        LET calls == last.calls
            perDoc == {k \in 1..Len(calls) : calls[k][1] # "storeDocuments"}
        IN  /\ \A j, k \in perDoc :
                  j < k => \/ calls[j][2] < calls[k][2]
                           \/ /\ calls[j][2] = calls[k][2]
                              /\ RankOf(calls[j][1]) < RankOf(calls[k][1])
            /\ \A i \in 1..Len(last.docs) :
                  \E k \in perDoc : calls[k] = <<"getCachedEmbedding", i>>
            /\ \A k \in perDoc : calls[k][2] \in 1..Len(last.docs)

\* a batch of two documents, both embedded by the provider: lookup, provider
\* call and cache write of the first, then those of the second, then the
\* store call
C20_Witness ==
    /\ last.op = "processAndStoreDocuments"
    /\ last.calls = << <<"getCachedEmbedding", 1>>, <<"generateEmbedding", 1>>,
                       <<"cacheEmbedding", 1>>, <<"getCachedEmbedding", 2>>,
                       <<"generateEmbedding", 2>>, <<"cacheEmbedding", 2>>,
                       <<"storeDocuments", 2>> >>

(***************************************************************************)
(* C13: one document in the store, then a retrieval with threshold 0 and   *)
(* topK 1.  The step is a retrieval that follows a successful              *)
(* processAndStoreDocument which left the store with that document alone;  *)
(* the provider embeds the query and the store answers the search.         *)
(***************************************************************************)
SingleThenRetrieve ==
    /\ last.op = "processAndStoreDocument"
    /\ last.ok
    /\ Len(Points) = 1
    /\ Points[1].id = last.docs[1].id
    /\ last'.op = "retrieveRelevantDocuments"
    /\ last'.limit = 1
    /\ last'.threshold = Zero
    /\ last'.query # <<>>
    /\ last'.outcome = "ok"
    /\ last'.ok

FindsTheDocument ==
    /\ Len(last'.result) = 1
    /\ last'.result[1].id = last.docs[1].id

\* C13 as stated: for every query the provider can embed, the retrieval
\* returns exactly one result, with the id of the ingested document.
C13_Original == [][SingleThenRetrieve => FindsTheDocument]_vars

\* C13, amended: for every query the provider can embed and whose
\* similarity to the document's vector is not below 0, the retrieval with
\* threshold 0 and topK 1 returns exactly one result, with the id of the
\* ingested document; a query of negative similarity gets no result.
C13_SingleDocumentFound ==
    [][SingleThenRetrieve =>
          LET score == Similarity[EmbeddingModel(last'.query), Points[1].vector]
          IN  IF ~NumLess(score, Zero)
              THEN FindsTheDocument /\ last'.result[1].score = score
              ELSE last'.result = <<>>]_vars

\* the document was found by a query orthogonal to it: score 0 at threshold 0
C13_Witness ==
    /\ last.op = "retrieveRelevantDocuments"
    /\ last.ok
    /\ last.limit = 1
    /\ last.threshold = Zero
    /\ last.query = <<"q3">>
    /\ Len(Points) = 1
    /\ Len(last.result) = 1
    /\ last.result[1].id = Points[1].id
    /\ last.result[1].score = Zero

(***************************************************************************)
(* The dimension of stored vectors (specification SpecDim): the in-memory  *)
(* store fed with documents as callers of storeDocument and storeDocuments *)
(* can hand them over, among them one whose vector has another length and  *)
(* one without a vector.  The model's vectors are scaled down: vectorSize  *)
(* stands for the 768 of the constructor.                                  *)
(***************************************************************************)
vectorSize == 2

\* a vector of another length
D4 == [id |-> "b", title |-> "t3", content |-> "c1", summary |-> "s3", embedding |-> <<1>>]

\* no embedding attached
D5 == [id |-> "b", title |-> "t3", content |-> "c1", summary |-> "s3", embedding |-> NoVector]

DimDocs == {D1, D3, D4, D5}

DimBatches == SeqsUpTo(DimDocs, MaxBatch)

NextDim ==
    \/ \E fail \in HandshakeSteps : initialize(fail)
    \/ \E doc \in DimDocs : fallback /\ storeDocument(doc, TRUE)
    \/ \E docs \in DimBatches : fallback /\ storeDocuments(docs, TRUE)
    \/ \E docId \in Ids : fallback /\ deleteDocument(docId, TRUE)
    \/ fallback /\ clearCollection(TRUE)

SpecDim == Init /\ [][NextDim]_vars

\* C14: every vector held in the store is present and has the store's
\* vector size, hence all stored vectors have the same dimension.
C14_SameDimension ==
    \A i \in 1..Len(memoryStore) :
        /\ memoryStore[i].vector # NoVector
        /\ Len(memoryStore[i].vector) = vectorSize

(***************************************************************************)
(* The cache and the vector store side by side (specification SpecIndep):  *)
(* single-document ingestion, the two removals of QdrantService and        *)
(* RedisService.clearAllEmbeddings, each called on its own.                *)
(***************************************************************************)
\* RedisService.clearAllEmbeddings: keys('embedding:*'), then del; raises
\* when the cache does not answer
clearAllEmbeddings(cacheOk) ==
    /\ cache' = IF cacheOk THEN [i \in Ids |-> NoVector] ELSE cache
    /\ last' = [op |-> "clearAllEmbeddings", ok |-> cacheOk,
                result |-> IF cacheOk
                           THEN Cardinality({i \in Ids : cache[i] # NoVector})
                           ELSE Null]
    /\ UNCHANGED <<fallback, client, memoryStore, collectionExists, collection>>

NextIndep ==
    \/ \E fail \in HandshakeSteps : initializeServices(fail)
    \/ \E document \in RagDocs, netOk \in BOOLEAN :
          processAndStoreDocument(document, netOk)
    \/ \E docId \in Ids, netOk \in BOOLEAN : Ready /\ deleteDocument(docId, netOk)
    \/ \E netOk \in BOOLEAN : Ready /\ clearCollection(netOk)
    \/ \E cacheOk \in BOOLEAN : clearAllEmbeddings(cacheOk)

SpecIndep == Init /\ [][NextIndep]_vars

\* C15: deleteDocument and clearCollection leave every cache entry as it
\* was, clearAllEmbeddings leaves every point of the vector store as it
\* was, and a document ingested right after deleteDocument or
\* clearCollection, its id still cached and the cache answering, takes its
\* vector from the cache without a provider call.
C15_Independent ==
    [][/\ last'.op \in {"deleteDocument", "clearCollection"} => cache' = cache
       /\ last'.op = "clearAllEmbeddings" =>
             /\ memoryStore' = memoryStore
             /\ collection' = collection
       /\ (/\ last.op \in {"deleteDocument", "clearCollection"}
           /\ last'.op = "processAndStoreDocument"
           /\ cache[last'.docs[1].id] # NoVector
           /\ last'.steps[1].read) =>
             /\ last'.steps[1].step = "hit"
             /\ last'.steps[1].provider = 0
             /\ last'.ok => Points'[Len(Points')].vector = cache[last'.docs[1].id]
      ]_vars

\* the store was cleared with success and holds nothing, while the cache
\* still holds the vectors of both ids
C15_Witness ==
    /\ last.op = "clearCollection"
    /\ last.ok
    /\ Points = <<>>
    /\ \A i \in Ids : cache[i] # NoVector

\* C16: a processAndStoreDocuments call that has begun to process its
\* documents -- it has made the cache lookup of the first -- does not fail,
\* whatever the provider, the cache and the store do afterwards.
C16_FailsOnlyBeforeProcessing ==
    (last.op = "processAndStoreDocuments" /\ Len(last.calls) > 0) => last.ok

(***************************************************************************)
(* Failed calls and the vector store (specification SpecAtomic): the two   *)
(* store methods called directly, before and after initialisation, and the *)
(* two ingestion methods, under provider, cache and store failures.        *)
(***************************************************************************)
NextAtomic ==
    \/ \E fail \in HandshakeSteps : initializeServices(fail)
    \/ \E doc \in StoreDocs, netOk \in BOOLEAN : storeDocument(doc, netOk)
    \/ \E docs \in Batches, netOk \in BOOLEAN : storeDocuments(docs, netOk)
    \/ \E document \in RagDocs, netOk \in BOOLEAN :
          processAndStoreDocument(document, netOk)
    \/ \E documents \in RagBatches, netOk \in BOOLEAN :
          processAndStoreDocuments(documents, netOk)

SpecAtomic == Init /\ [][NextAtomic]_vars

MaxTexts == 2

Str(chars) == [type |-> "string", chars |-> chars]

Undefined == [type |-> "undefined", chars |-> <<>>]

\* '', ' ', 'x', ' x', 42, 0, undefined
TextValues == {Str(<<>>), Str(<<" ">>), Str(<<"x">>), Str(<<" ", "x">>),
               [type |-> "number", chars |-> <<"4", "2">>],
               [type |-> "number", chars |-> <<"0">>], Undefined}

\* process.env.JINA_API_KEY: unset, empty, set
ApiKeys == {Undefined, Str(<<>>), Str(<<"k">>)}

\* the argument: an array of values, or a single value
TextArguments ==
    {[isArray |-> TRUE, items |-> t] : t \in SeqsUpTo(TextValues, MaxTexts)}
      \cup {[isArray |-> FALSE, items |-> <<v>>] : v \in TextValues}

\* what axios.post meets: an answer with one embedding per input, an answer
\* with an empty data array, an answer without data, an error status, no
\* answer at all
PostOutcomes == {"ok", "empty", "noData", "status", "noResponse"}

\* JavaScript's truthiness of a value
Truthy(v) ==
    IF v.type = "string" THEN Len(v.chars) > 0
    ELSE IF v.type = "number" THEN v.chars # <<"0">>
    ELSE FALSE

\* String.prototype.trim
RECURSIVE trim(_)
trim(chars) ==
    IF chars = <<>> THEN chars
    ELSE IF Head(chars) = " " THEN trim(Tail(chars))
    ELSE IF chars[Len(chars)] = " " THEN trim(SubSeq(chars, 1, Len(chars) - 1))
    ELSE chars

\* the filter of generateEmbeddings
ValidText(v) == Truthy(v) /\ v.type = "string" /\ Len(trim(v.chars)) > 0

\* generateEmbeddings posting again after a failed call
generateEmbeddings_Retrying(apiKey, texts, outcome) ==
    LET validTexts == SelectSeq(texts.items, ValidText)
        embeddings == [i \in 1..Len(validTexts) |-> <<1, 1>>]
    IN  IF ~Truthy(apiKey) THEN [ok |-> FALSE, value |-> Null, calls |-> 0, sent |-> <<>>]
        ELSE IF Len(validTexts) = 0
        THEN [ok |-> FALSE, value |-> Null, calls |-> 0, sent |-> <<>>]
        ELSE IF outcome \in {"noData", "status", "noResponse"}
        THEN [ok |-> FALSE, value |-> Null, calls |-> 2, sent |-> validTexts]
        ELSE [ok |-> TRUE, calls |-> 1, sent |-> validTexts,
              value |-> IF outcome = "empty" THEN (IF texts.isArray THEN <<>> ELSE Null)
                        ELSE IF texts.isArray THEN embeddings ELSE embeddings[1]]

\* EmbeddingsService.generateEmbeddings: calls counts the posts, sent is the
\* input of the post
generateEmbeddings(apiKey, texts, outcome) ==
    LET validTexts == SelectSeq(texts.items, ValidText)
        embeddings == [i \in 1..Len(validTexts) |-> <<1, 1>>]
    IN  IF ~Truthy(apiKey) THEN [ok |-> FALSE, value |-> Null, calls |-> 0, sent |-> <<>>]
        ELSE IF Len(validTexts) = 0
        THEN [ok |-> FALSE, value |-> Null, calls |-> 0, sent |-> <<>>]
        ELSE IF outcome \in {"noData", "status", "noResponse"}
        THEN [ok |-> FALSE, value |-> Null, calls |-> 1, sent |-> validTexts]
        ELSE [ok |-> TRUE, calls |-> 1, sent |-> validTexts,
              value |-> IF outcome = "empty" THEN (IF texts.isArray THEN <<>> ELSE Null)
                        ELSE IF texts.isArray THEN embeddings ELSE embeddings[1]]

InitEmbed ==
    /\ fallback = FALSE
    /\ client = FALSE
    /\ memoryStore = <<>>
    /\ collectionExists = FALSE
    /\ collection = <<>>
    /\ cache = [i \in Ids |-> NoVector]
    /\ \E apiKey \in ApiKeys, texts \in TextArguments, outcome \in PostOutcomes :
          last = [op |-> "arguments", apiKey |-> apiKey, texts |-> texts,
                  outcome |-> outcome]

\* the call of generateEmbeddings on the chosen arguments
embed ==
    /\ last.op = "arguments"
    /\ UNCHANGED <<fallback, client, memoryStore, collectionExists, collection, cache>>
    /\ LET r == generateEmbeddings(last.apiKey, last.texts, last.outcome)
       IN  last' = [op |-> "generateEmbeddings", apiKey |-> last.apiKey,
                    texts |-> last.texts, outcome |-> last.outcome,
                    ok |-> r.ok, value |-> r.value, calls |-> r.calls, sent |-> r.sent]

NextEmbed == embed

SpecEmbed == InitEmbed /\ [][NextEmbed]_vars

\* the strings of TextValues that are not blank
NonBlankStrings == {Str(<<"x">>), Str(<<" ", "x">>)}

\* C18: a generateEmbeddings invocation makes at most one outbound call:
\* exactly one when the credential is set and some input is a non-blank
\* string, none -- the invocation failing -- when the credential is missing
\* or every input is empty or not text; and when the one call fails the
\* invocation fails, without a second call.
C18_OneCallNoRetry ==
    last.op = "generateEmbeddings" =>
        LET keyed == last.apiKey = Str(<<"k">>)
            valid == \E i \in 1..Len(last.texts.items) :
                        last.texts.items[i] \in NonBlankStrings
        IN  /\ last.calls <= 1
            /\ (keyed /\ valid) => last.calls = 1
            /\ ~(keyed /\ valid) => (last.calls = 0 /\ ~last.ok)
            /\ last.outcome \in {"noData", "status", "noResponse"} => ~last.ok
            /\ \A i \in 1..Len(last.sent) : last.sent[i] \in NonBlankStrings

\* the credential is set, the array holds a blank and a non-blank string,
\* and the one call was answered with an error status
C18_Witness ==
    /\ last.op = "generateEmbeddings"
    /\ last.apiKey = Str(<<"k">>)
    /\ last.texts = [isArray |-> TRUE, items |-> <<Str(<<" ">>), Str(<<"x">>)>>]
    /\ last.outcome = "status"
    /\ ~last.ok
    /\ last.calls = 1
    /\ last.sent = <<Str(<<"x">>)>>

(***************************************************************************)
(* Ingestion of documents that lack a required field (specification        *)
(* SpecValidate): next to a complete document, one whose content is empty  *)
(* and one that has nothing but its id.                                    *)
(***************************************************************************)
\* empty content, with a title
E1 == [id |-> "b", title |-> "t3", content |-> "", summary |-> Null]

\* empty content, no title, no summary
E2 == [id |-> "b", title |-> Null, content |-> "", summary |-> Null]

ValidateDocs == {[id |-> D1.id, title |-> D1.title, content |-> D1.content,
                  summary |-> D1.summary], E1, E2}

ValidateBatches == SeqsUpTo(ValidateDocs, MaxBatch)

NextValidate ==
    \/ \E fail \in HandshakeSteps : initializeServices(fail)
    \/ \E document \in ValidateDocs, netOk \in BOOLEAN :
          processAndStoreDocument(document, netOk)
    \/ \E documents \in ValidateBatches, netOk \in BOOLEAN :
          processAndStoreDocuments(documents, netOk)

SpecValidate == Init /\ [][NextValidate]_vars

\* C19: no point of the vector store belongs to a document whose content is
\* empty: ingestion stores no such document, whatever its title and summary.
C19_RequiredFields ==
    \A i \in 1..Len(Points) : Present(Points[i].payload.content)

(***************************************************************************)
(* C21: ties in a fallback-mode search (specification Spec).  The place of *)
(* a point in memoryStore is its insertion order: both store methods push  *)
(* at the end.  ScoreAt is the score the search gives the point at place   *)
(* i, KeptPlaces the places that pass the threshold, and AheadOf(i) the    *)
(* kept places that come before place i in the order the claim names:      *)
(* higher score first, earlier place first among equal scores.             *)
(***************************************************************************)
ScoreAt(i) == Similarity[last.query, memoryStore[i].vector]

KeptPlaces == {i \in 1..Len(memoryStore) : ~NumLess(ScoreAt(i), last.threshold)}

AheadOf(i) ==
    {j \in KeptPlaces : \/ NumLess(ScoreAt(i), ScoreAt(j))
                        \/ ScoreAt(j) = ScoreAt(i) /\ j < i}

\* C21: a fallback-mode search returns, at position k, the kept point that
\* has exactly k - 1 kept points ahead of it, where among points of equal
\* score the one inserted earlier is ahead; so ties come back in insertion
\* order and the cut at topK keeps the earliest inserted of them.
C21_StableTies ==
    (last.op = "searchSimilar" /\ fallback) =>
        /\ Len(last.result) = Min(last.limit, Cardinality(KeptPlaces))
        /\ \A k \in 1..Len(last.result) :
              \E i \in KeptPlaces :
                 /\ Cardinality(AheadOf(i)) = k - 1
                 /\ last.result[k] = ResultOf([id |-> memoryStore[i].id,
                                               score |-> ScoreAt(i),
                                               payload |-> memoryStore[i].payload])

\* a search cut to one result over two points of equal score and different
\* ids: the one inserted first is returned
C21_Witness ==
    /\ last.op = "searchSimilar"
    /\ fallback
    /\ last.limit = 1
    /\ Len(memoryStore) = 2
    /\ memoryStore[1].id # memoryStore[2].id
    /\ KeptPlaces = {1, 2}
    /\ ScoreAt(1) = ScoreAt(2)
    /\ Len(last.result) = 1
    /\ last.result[1].id = memoryStore[1].id

(***************************************************************************)
(* A cached vector and a changed document (specification SpecStale):       *)
(* single-document ingestion, the expiry of cache entries and the full     *)
(* reset.  D1 and D2 are one id with two texts and two vectors.            *)
(***************************************************************************)
NextStale ==
    \/ \E fail \in HandshakeSteps : initializeServices(fail)
    \/ \E document \in RagDocs, netOk \in BOOLEAN :
          processAndStoreDocument(document, netOk)
    \/ \E netOk \in BOOLEAN, cacheOk \in BOOLEAN : clearAllDocuments(netOk, cacheOk)
    \/ \E docId \in Ids : expire(docId)

SpecStale == Init /\ [][NextStale]_vars

\* an ingestion of a document whose id has a cache entry, the lookup
\* answered: no provider call, the cache left as it is, and the point stored
\* carries the document's payload with the cached vector
ServesCached ==
    (/\ last'.op = "processAndStoreDocument"
     /\ cache[last'.docs[1].id] # NoVector
     /\ last'.steps[1].read) =>
        /\ last'.steps[1].step = "hit"
        /\ last'.steps[1].provider = 0
        /\ cache' = cache
        /\ last'.ok =>
              LET point == Points'[Len(Points')]
              IN  /\ point.id = last'.docs[1].id
                  /\ point.vector = cache[last'.docs[1].id]
                  /\ point.payload.title = last'.docs[1].title
                  /\ point.payload.content = last'.docs[1].content

\* the step is an ingestion of the id whose lookup of the cache failed
RefreshedBy(docId) ==
    /\ last'.op = "processAndStoreDocument"
    /\ last'.docs[1].id = docId
    /\ ~last'.steps[1].read

\* C22 as stated: the cached vector is served indefinitely: an entry, once
\* written, stays as it is until the full reset (or a failed lookup makes
\* the next ingestion embed again).
C22_Original ==
    [][/\ ServesCached
       /\ \A docId \in Ids :
             (cache[docId] # NoVector /\ cache'[docId] # cache[docId]) =>
                (last'.op = "clearAllDocuments" \/ RefreshedBy(docId))
      ]_vars

\* C22, amended: while the cache entry of an id exists, a re-ingestion of
\* that id with a changed text calls no provider and stores the new payload
\* with the cached vector; the entry goes when its 7 days are over or on the
\* full reset (or is rewritten after a failed lookup), and only then.
C22_StaleWhileCached ==
    [][/\ ServesCached
       /\ \A docId \in Ids :
             (cache[docId] # NoVector /\ cache'[docId] # cache[docId]) =>
                (\/ last'.op = "clearAllDocuments"
                 \/ last'.op = "expire" /\ last'.id = docId /\ cache'[docId] = NoVector
                 \/ RefreshedBy(docId))
      ]_vars

\* the point of id a carries the payload of the second text and the vector
\* of the first
C22_Witness ==
    /\ last.op = "processAndStoreDocument"
    /\ last.ok
    /\ last.steps[1].step = "hit"
    /\ last.docs[1].title = D2.title
    /\ Points[Len(Points)].id = "a"
    /\ Points[Len(Points)].payload.title = D2.title
    /\ Points[Len(Points)].vector = D1.embedding
    /\ EmbeddingModel(createEmbeddingText(last.docs[1])) = D2.embedding
    /\ D1.embedding # D2.embedding

(***************************************************************************)
(* Concurrent requests in fallback mode (specification SpecConc).  Node    *)
(* runs one request at a time until it reaches an await; there another     *)
(* request may run.  last holds the scheduler's view:                      *)
(*   req         per request slot, the call it runs and the statement it   *)
(*               is at                                                     *)
(*   running     the request that holds the thread, 0 when every request   *)
(*               is suspended at an await or finished                      *)
(*   sequential  the store obtained by applying the store operations one   *)
(*               after the other, each when it returns                     *)
(*   searched    whether every search so far saw the store `sequential`    *)
(*   provider    per id, the provider calls made for it                    *)
(* The awaited calls on the cache and the provider take effect when they   *)
(* are answered.  No call fails here.                                      *)
(***************************************************************************)
MaxRequests == 2

Requests == 1..MaxRequests

Idle == [kind |-> "none", pc |-> "idle", docs |-> <<>>, id |-> "", query |-> NoVector,
         embedding |-> NoVector]

Call(kind, docs, id, query) ==
    [kind |-> kind, pc |-> "called", docs |-> docs, id |-> id, query |-> query,
     embedding |-> NoVector]

\* the calls a request makes: processAndStoreDocument of each document, and
\* storeDocuments, deleteDocument, clearCollection and searchSimilar directly
ConcCalls ==
    {Call("processAndStoreDocument", <<d>>, d.id, NoVector) : d \in RagDocs}
      \cup {Call("storeDocuments", <<D1, D3>>, "", NoVector),
            Call("deleteDocument", <<>>, "a", NoVector),
            Call("clearCollection", <<>>, "", NoVector),
            Call("searchSimilar", <<>>, "", <<1, 1>>)}

\* a statement followed by an await hands the thread over
Synchronous_Awaits(r) == 0

\* between two statements with no await in between the request keeps the
\* thread
Synchronous(r) == r

InitConc ==
    /\ fallback = TRUE
    /\ client = FALSE
    /\ memoryStore = <<>>
    /\ collectionExists = FALSE
    /\ collection = <<>>
    /\ cache = [i \in Ids |-> NoVector]
    /\ last = [op |-> "requests", req |-> [r \in Requests |-> Idle], running |-> 0,
               sequential |-> <<>>, searched |-> TRUE,
               provider |-> [i \in Ids |-> 0]]

MayRun(r) == last.running \in {0, r}

At(r, kind, pc) == MayRun(r) /\ last.req[r].kind = kind /\ last.req[r].pc = pc

\* a request arrives and is run up to its first await: the cache lookup of
\* processAndStoreDocument; the other calls await nothing before the store
begin(r, call) ==
    /\ last.running = 0
    /\ last.req[r].pc = "idle"
    /\ last' = [last EXCEPT !.req[r] = call,
                            !.running = IF call.kind = "processAndStoreDocument"
                                        THEN 0 ELSE Synchronous(r)]
    /\ UNCHANGED <<fallback, client, memoryStore, collectionExists, collection, cache>>

\* getCachedEmbedding is answered: on a hit the request goes on into
\* storeDocument, on a miss it calls the provider and awaits
lookupDone(r) ==
    /\ At(r, "processAndStoreDocument", "called")
    /\ LET cached == cache[last.req[r].id]
       IN  last' = [last EXCEPT !.req[r].embedding = cached,
                                !.req[r].pc = IF cached # NoVector THEN "filter"
                                              ELSE "generateEmbedding",
                                !.running = IF cached # NoVector THEN Synchronous(r)
                                            ELSE 0]
    /\ UNCHANGED <<fallback, client, memoryStore, collectionExists, collection, cache>>

\* generateEmbedding is answered; the request calls cacheEmbedding and awaits
generateDone(r) ==
    /\ At(r, "processAndStoreDocument", "generateEmbedding")
    /\ LET document == last.req[r].docs[1]
       IN  last' = [last EXCEPT !.req[r].embedding =
                                     EmbeddingModel(createEmbeddingText(document)),
                                !.req[r].pc = "cacheEmbedding",
                                !.provider[document.id] = @ + 1,
                                !.running = 0]
    /\ UNCHANGED <<fallback, client, memoryStore, collectionExists, collection, cache>>

\* cacheEmbedding is answered; the request goes on into storeDocument
writeDone(r) ==
    /\ At(r, "processAndStoreDocument", "cacheEmbedding")
    /\ cache' = [cache EXCEPT ![last.req[r].id] = last.req[r].embedding]
    /\ last' = [last EXCEPT !.req[r].pc = "filter", !.running = Synchronous(r)]
    /\ UNCHANGED <<fallback, client, memoryStore, collectionExists, collection>>

\* the documents a request hands to the store
Upserted(r) ==
    IF last.req[r].kind = "storeDocuments" THEN last.req[r].docs
    ELSE <<WithEmbedding(last.req[r].docs[1], last.req[r].embedding)>>

\* storeDocument / storeDocuments, first statement: memoryStore = filter(...)
filter(r) ==
    /\ \/ At(r, "processAndStoreDocument", "filter")
       \/ At(r, "storeDocuments", "called")
    /\ memoryStore' = SelectSeq(memoryStore,
                                LAMBDA p : p.id \notin IdsOf(PointsOf(Upserted(r))))
    /\ last' = [last EXCEPT !.req[r].pc = "push", !.running = Synchronous(r)]
    /\ UNCHANGED <<fallback, client, collectionExists, collection, cache>>

\* storeDocument / storeDocuments, second statement: memoryStore.push(...);
\* the method returns and its caller awaits it
push(r) ==
    /\ MayRun(r)
    /\ last.req[r].pc = "push"
    /\ memoryStore' = memoryStore \o PointsOf(Upserted(r))
    /\ last' = [last EXCEPT !.req[r].pc = "done", !.running = 0,
                            !.sequential = MemStoreDocuments(@, Upserted(r))]
    /\ UNCHANGED <<fallback, client, collectionExists, collection, cache>>

\* deleteDocument, fallback branch
remove(r) ==
    /\ At(r, "deleteDocument", "called")
    /\ memoryStore' = MemDeleteDocument(memoryStore, last.req[r].id)
    /\ last' = [last EXCEPT !.req[r].pc = "done", !.running = 0,
                            !.sequential = MemDeleteDocument(@, last.req[r].id)]
    /\ UNCHANGED <<fallback, client, collectionExists, collection, cache>>

\* clearCollection, fallback branch
clear(r) ==
    /\ At(r, "clearCollection", "called")
    /\ memoryStore' = <<>>
    /\ last' = [last EXCEPT !.req[r].pc = "done", !.running = 0, !.sequential = <<>>]
    /\ UNCHANGED <<fallback, client, collectionExists, collection, cache>>

\* searchSimilar, fallback branch: what it returns is compared with the
\* search of the sequential store
search(r) ==
    /\ At(r, "searchSimilar", "called")
    /\ last' = [last EXCEPT !.req[r].pc = "done", !.running = 0,
                            !.searched = /\ @
                                         /\ MemSearchSimilar(memoryStore, last.req[r].query,
                                                             MaxK, Zero)
                                              = MemSearchSimilar(last.sequential,
                                                                 last.req[r].query,
                                                                 MaxK, Zero)]
    /\ UNCHANGED <<fallback, client, memoryStore, collectionExists, collection, cache>>

NextConc ==
    \/ \E r \in Requests, call \in ConcCalls : begin(r, call)
    \/ \E r \in Requests : lookupDone(r)
    \/ \E r \in Requests : generateDone(r)
    \/ \E r \in Requests : writeDone(r)
    \/ \E r \in Requests : filter(r)
    \/ \E r \in Requests : push(r)
    \/ \E r \in Requests : remove(r)
    \/ \E r \in Requests : clear(r)
    \/ \E r \in Requests : search(r)

SpecConc == InitConc /\ [][NextConc]_vars

\* C23: under every interleaving of requests at their awaits, whenever
\* another request can run the in-memory store is the store obtained by
\* applying the store operations one after the other in the order in which
\* they returned -- no upsert lost, no id missing or doubled half way
\* through a replacement -- and every search returned what a search of that
\* store returns.
C23_AtomicStoreOps ==
    /\ last.running = 0 => memoryStore = last.sequential
    /\ last.searched

\* two ingestions of one id have overlapped -- both missed the cache and
\* called the provider -- and both have returned: the store holds the id once
C23_Witness ==
    /\ \A r \in Requests : last.req[r].pc = "done"
    /\ \A r \in Requests : last.req[r].kind = "processAndStoreDocument"
    /\ \A r \in Requests : last.req[r].id = "a"
    /\ last.req[1].docs # last.req[2].docs
    /\ last.provider["a"] = 2
    /\ Len(memoryStore) = 1
    /\ memoryStore = last.sequential

\* C27: whatever the overlap of the ingestions of an id, the provider is
\* called at most once for that id, and when the requests have returned the
\* store holds at most one point of it.
C27_OneCallPerId ==
    /\ \A i \in Ids : last.provider[i] <= 1
    /\ (\A r \in Requests : last.req[r].pc \in {"idle", "done"}) =>
          \A i \in Ids : Cardinality(PlacesOf(i)) <= 1

(***************************************************************************)
(* C24: deleteDocument and clearCollection in fallback mode (specification *)
(* Spec).                                                                  *)
(***************************************************************************)
\* the effect of deleteDocument(id) the claim names: the id is gone, the
\* count is one less if the id was there and the same otherwise, the other
\* points are kept as they are and in their order
DeletesExactlyOne ==
    /\ last'.ok
    /\ \A i \in 1..Len(memoryStore') : memoryStore'[i].id # last'.id
    /\ Len(memoryStore') = Len(memoryStore) - (IF PlacesOf(last'.id) = {} THEN 0 ELSE 1)
    /\ memoryStore' = SelectSeq(memoryStore, LAMBDA p : p.id # last'.id)

\* C24: in fallback mode deleteDocument(id) removes exactly the point with
\* that id -- the count drops by one if the id was present and is unchanged
\* otherwise, every other point keeps its place among the others -- and
\* clearCollection leaves the count at 0.
C24_DeleteExactlyOne ==
    [][/\ (fallback /\ last'.op = "deleteDocument") => DeletesExactlyOne
       /\ (fallback /\ last'.op = "clearCollection") => Len(memoryStore') = 0
      ]_vars

\* the same, for a store that holds no id twice
C24_WhileUnique ==
    [][/\ (/\ fallback
           /\ last'.op = "deleteDocument"
           /\ \A i \in Ids : Cardinality(PlacesOf(i)) <= 1) => DeletesExactlyOne
       /\ (fallback /\ last'.op = "clearCollection") => Len(memoryStore') = 0
      ]_vars

\* C25: a clearAllDocuments call that returns with success, no other
\* request running, leaves the vector store empty and the cache without an
\* entry -- never the store cleared and cache entries left -- and the
\* ingestion that follows finds no cached vector: it calls the provider.
C25_FullReset ==
    [][/\ (last'.op = "clearAllDocuments" /\ last'.ok) =>
             /\ Len(Points') = 0
             /\ \A i \in Ids : cache'[i] = NoVector
       /\ (/\ last.op = "clearAllDocuments"
           /\ last.ok
           /\ last'.op = "processAndStoreDocument") =>
             /\ last'.steps[1].step # "hit"
             /\ createEmbeddingText(last'.docs[1]) # <<>> => last'.steps[1].provider = 1
      ]_vars

\* a reset that returned with success after deleting the cache entries of
\* both ids
C25_Witness ==
    /\ last.op = "clearAllDocuments"
    /\ last.ok
    /\ last.removed = Cardinality(Ids)
    /\ Points = <<>>
    /\ \A i \in Ids : cache[i] = NoVector

(***************************************************************************)
(* Start-up (specification SpecAuto): startServer awaits                   *)
(* initializeServices, then autoIngestNews; the process may be stopped and *)
(* started again, and then the networked collection and the cache are what *)
(* the earlier run left, while memoryStore starts empty.  The articles     *)
(* autoIngestNews gets from its sources are a batch of documents, handed   *)
(* to processAndStoreDocuments; the store answers its calls.               *)
(***************************************************************************)
\* RAGService.getStats: the fields of the record it returns
getStats ==
    [documentCount |-> IF fallback THEN Len(memoryStore) ELSE Len(collection),
     collectionStatus |-> IF fallback THEN "yellow" ELSE "green"]

\* stats.name in JavaScript: undefined for a field the record does not have
Field(record, name) == IF name \in DOMAIN record THEN record[name] ELSE Null

\* x > 0 in JavaScript: false for undefined
Positive(x) == IF x = Null THEN FALSE ELSE x > 0

\* SIGTERM or SIGINT, and the process started again
restart ==
    /\ last.op # "constructor"
    /\ fallback' = FALSE
    /\ client' = FALSE
    /\ memoryStore' = <<>>
    /\ last' = [op |-> "constructor"]
    /\ UNCHANGED <<collectionExists, collection, cache>>

\* autoIngestNews, called by startServer once the services are initialised
autoIngestNews(documents) ==
    /\ last.op = "initialize"
    /\ Ready
    /\ IF Positive(Field(getStats, "totalDocuments"))
       THEN /\ last' = [op |-> "autoIngestNews", before |-> Len(Points),
                        ingested |-> FALSE, calls |-> <<>>, result |-> 0]
            /\ UNCHANGED <<memoryStore, collection, cache>>
       ELSE \E r \in EmbedFrom(1, documents, [cache |-> cache, out |-> <<>>,
                                              steps |-> <<>>, calls |-> <<>>]) :
               LET n == Len(r.out)
               IN  /\ cache' = r.cache
                   /\ memoryStore' = IF n > 0 /\ fallback
                                     THEN MemStoreDocuments(memoryStore, r.out)
                                     ELSE memoryStore
                   /\ collection' = IF n > 0 /\ ~fallback
                                    THEN ClientUpsert(collection, PointsOf(r.out))
                                    ELSE collection
                   /\ last' = [op |-> "autoIngestNews", before |-> Len(Points),
                               ingested |-> TRUE,
                               calls |-> StoreCall(r.calls, "storeDocuments", n),
                               result |-> n]
    /\ UNCHANGED <<fallback, client, collectionExists>>

NextAuto ==
    \/ \E fail \in HandshakeSteps : initializeServices(fail)
    \/ \E documents \in RagBatches \ {<<>>} : autoIngestNews(documents)
    \/ restart

SpecAuto == Init /\ [][NextAuto]_vars

\* C26: an autoIngestNews call that finds at least one document in the
\* vector store ingests nothing: no source is read, no provider call and no
\* store write is made.
C26_SkipsWhenPopulated ==
    (last.op = "autoIngestNews" /\ last.before > 0) =>
        (~last.ingested /\ last.calls = <<>>)

\* C28: in an ingestion, a document for which the provider returned a vector
\* is stored, whether or not the cache answered its read and took its
\* write: it is not dropped, and with the store answering its point is in
\* the vector store afterwards.
C28_CacheOptional ==
    last.op \in Ingestions =>
        \A j \in 1..Len(last.docs) :
            (last.steps[j].provider = 1 /\ last.steps[j].step # "providerError") =>
                /\ last.steps[j].step = "embedded"
                /\ last.netOk => last.docs[j].id \in IdsOf(Points)

(***************************************************************************)
(* RSS ingestion (specification SpecRss): NewsIngestionService after the   *)
(* services were initialised, in either mode.  A feed is the sequence of   *)
(* the links of its items; usable are the links processRSSItem makes an    *)
(* article of (for the others it returns null).  An article gets a fresh   *)
(* id; as a link is processed once per process, the id is a function of    *)
(* the link here.  last carries the fields of the service:                 *)
(*   processedUrls   the set of that name                                  *)
(*   handedUrls      the links of the articles handed to                   *)
(*                   processAndStoreDocuments so far                       *)
(* maxArticles is scaled down from its default of 50.                      *)
(***************************************************************************)
MaxFeeds == 2

MaxItems == 2

maxArticles == 1

Urls == {"u1", "u2"}

Feeds == SeqsUpTo(SeqsUpTo(Urls, MaxItems), MaxFeeds)

\* the article processRSSItem builds from the item with this link
ArticleOf(url) ==
    IF url = "u1"
    THEN [id |-> "a", title |-> "t1", content |-> "c1", summary |-> Null]
    ELSE [id |-> "b", title |-> "t3", content |-> "c1", summary |-> "s3"]

\* what an earlier run of the process can have left in Redis
EarlierCaches ==
    {c \in [Ids -> Vectors] :
        \A i \in Ids : c[i] = NoVector \/ \E d \in StoreDocs : d.id = i /\ d.embedding = c[i]}

InitRss ==
    /\ fallback \in BOOLEAN
    /\ client = ~fallback
    /\ memoryStore = <<>>
    /\ collectionExists = client
    /\ collection = <<>>
    /\ cache \in EarlierCaches
    /\ last = [op |-> "constructor", processedUrls |-> {}, handedUrls |-> {}]

\* processFeed: the loop over feed.items from item i on; acc holds the
\* articles of the feed so far and processedUrls
RECURSIVE processFeed(_, _, _, _)
processFeed(items, i, usable, acc) ==
    IF i > Len(items) THEN acc
    ELSE IF items[i] \in acc.processedUrls \/ items[i] \notin usable
    THEN processFeed(items, i + 1, usable, acc)
    ELSE processFeed(items, i + 1, usable,
                     [articles |-> Append(acc.articles, items[i]),
                      processedUrls |-> acc.processedUrls \cup {items[i]}])

\* ingestFromRSSFeeds: the loop over the feeds from feed i on, left when
\* allArticles has reached maxArticles
RECURSIVE collectFeeds(_, _, _, _)
collectFeeds(feeds, i, usable, acc) ==
    IF i > Len(feeds) THEN acc
    ELSE LET feed == processFeed(feeds[i], 1, usable,
                                 [articles |-> <<>>, processedUrls |-> acc.processedUrls])
             allArticles == acc.allArticles \o feed.articles
             next == [allArticles |-> allArticles, processedUrls |-> feed.processedUrls]
         IN  IF Len(allArticles) >= maxArticles THEN next
             ELSE collectFeeds(feeds, i + 1, usable, next)

\* ingestFromRSSFeeds: collect, slice to maxArticles, hand the slice to
\* processAndStoreDocuments, return the slice
ingestFromRSSFeeds(feeds, usable, netOk) ==
    LET collected == collectFeeds(feeds, 1, usable,
                                  [allArticles |-> <<>>,
                                   processedUrls |-> last.processedUrls])
        limitedArticles == SubSeq(collected.allArticles, 1,
                                  Min(maxArticles, Len(collected.allArticles)))
        documents == [i \in 1..Len(limitedArticles) |-> ArticleOf(limitedArticles[i])]
    IN  /\ \E r \in EmbedFrom(1, documents, [cache |-> cache, out |-> <<>>,
                                             steps |-> <<>>, calls |-> <<>>]) :
              LET n == Len(r.out)
              IN  /\ (n = 0 \/ fallback) => netOk
                  /\ cache' = r.cache
                  /\ memoryStore' = IF n > 0 /\ fallback
                                    THEN MemStoreDocuments(memoryStore, r.out)
                                    ELSE memoryStore
                  /\ collection' = IF n > 0 /\ ~fallback /\ netOk
                                   THEN ClientUpsert(collection, PointsOf(r.out))
                                   ELSE collection
                  /\ last' = [op |-> "ingestFromRSSFeeds",
                              processedUrls |-> collected.processedUrls,
                              handedUrls |-> last.handedUrls
                                               \cup {limitedArticles[i] :
                                                       i \in 1..Len(limitedArticles)},
                              allArticles |-> collected.allArticles,
                              steps |-> r.steps,
                              calls |-> StoreCall(r.calls, "storeDocuments", n),
                              ok |-> netOk,
                              result |-> IF netOk THEN limitedArticles ELSE <<>>]
        /\ UNCHANGED <<fallback, client, collectionExists>>

NextRss ==
    \E feeds \in Feeds, usable \in SUBSET Urls, netOk \in BOOLEAN :
        ingestFromRSSFeeds(feeds, usable, netOk)

SpecRss == InitRss /\ [][NextRss]_vars

\* C29: every link in processedUrls is the link of an article that was
\* handed to processAndStoreDocuments -- none was marked and then cut off
\* by maxArticles -- and ingestFromRSSFeeds returns at most maxArticles
\* articles.
C29_ProcessedWereHanded ==
    /\ last.processedUrls \subseteq last.handedUrls
    /\ last.op = "ingestFromRSSFeeds" => Len(last.result) <= maxArticles

\* the part of C29 about the size of what is returned and handed over
C29_AtMostMaxArticles ==
    last.op = "ingestFromRSSFeeds" => Len(last.result) <= maxArticles

(***************************************************************************)
(* QdrantService.ensureSecureUrl and the connection test that follows it   *)
(* in initialize (specification SpecUrl).  A URL is the sequence of its    *)
(* pieces -- scheme, host labels, port, path segments -- and the string    *)
(* methods work on that sequence as they work on the characters: no piece  *)
(* contains another, so a search for a piece finds exactly its places.     *)
(* The initial state draws QDRANT_URL and QDRANT_API_KEY.                  *)
(***************************************************************************)
Schemes == {<<>>, <<"http://">>, <<"https://">>}

Hosts == {<<"localhost">>, <<"127.0.0.1">>, <<"qdrant", ".example.com">>,
          <<"localhost", ".example.com">>}

Ports == {<<>>, <<":6333">>}

Paths == {<<>>, <<"/">>, <<"/", "localhost">>}

\* process.env.QDRANT_URL: unset, empty, or a URL
QdrantUrls ==
    {Undefined, Str(<<>>)}
      \cup {Str(s \o h \o p \o q) : s \in Schemes, h \in Hosts, p \in Ports, q \in Paths}

\* String.prototype.includes
includes(url, piece) == \E i \in 1..Len(url) : url[i] = piece

\* String.prototype.startsWith
startsWith(url, piece) == Len(url) > 0 /\ url[1] = piece

\* String.prototype.replace with a string pattern: the first occurrence
replace(url, from, to) ==
    IF ~includes(url, from) THEN url
    ELSE LET i == CHOOSE k \in 1..Len(url) :
                      url[k] = from /\ \A j \in 1..(k - 1) : url[j] # from
         IN  [url EXCEPT ![i] = to]

\* QdrantService.ensureSecureUrl
ensureSecureUrl(url, apiKey) ==
    IF includes(url, "localhost") \/ includes(url, "127.0.0.1")
    THEN IF startsWith(url, "https://") THEN replace(url, "https://", "http://")
         ELSE url
    ELSE IF Truthy(apiKey)
    THEN IF startsWith(url, "http://") THEN replace(url, "http://", "https://")
         ELSE IF ~startsWith(url, "https://") THEN <<"https://">> \o url
         ELSE url
    ELSE url

\* the host of a URL: what stands between the scheme and the port or path
RECURSIVE UpToPortOrPath(_)
UpToPortOrPath(url) ==
    IF url = <<>> \/ Head(url) \in {":6333", "/"} THEN <<>>
    ELSE <<Head(url)>> \o UpToPortOrPath(Tail(url))

HostOf(url) ==
    IF startsWith(url, "http://") \/ startsWith(url, "https://")
    THEN UpToPortOrPath(Tail(url))
    ELSE UpToPortOrPath(url)

LocalHost(url) == HostOf(url) \in {<<"localhost">>, <<"127.0.0.1">>}

InitUrl ==
    /\ fallback = FALSE
    /\ client = FALSE
    /\ memoryStore = <<>>
    /\ collectionExists = FALSE
    /\ collection = <<>>
    /\ cache = [i \in Ids |-> NoVector]
    /\ \E env \in QdrantUrls, apiKey \in ApiKeys :
          last = [op |-> "env", env |-> env, apiKey |-> apiKey]

\* initialize up to the connection test: the configured URL or the default,
\* passed through ensureSecureUrl
secureUrl ==
    /\ last.op = "env"
    /\ LET url == IF Truthy(last.env) THEN last.env.chars
                  ELSE <<"http://", "localhost", ":6333">>
       IN  last' = [op |-> "ensureSecureUrl", apiKey |-> last.apiKey,
                    url |-> url, qdrantUrl |-> ensureSecureUrl(url, last.apiKey)]
    /\ UNCHANGED <<fallback, client, memoryStore, collectionExists, collection, cache>>

\* testConnection: one GET of <url>/collections, carrying the api-key header
\* when a key is configured
testConnection(ok) ==
    /\ last.op = "ensureSecureUrl"
    /\ last' = [op |-> "testConnection", apiKey |-> last.apiKey,
                url |-> last.url, qdrantUrl |-> last.qdrantUrl,
                fetched |-> last.qdrantUrl \o <<"/", "collections">>,
                keySent |-> Truthy(last.apiKey), ok |-> ok]
    /\ UNCHANGED <<fallback, client, memoryStore, collectionExists, collection, cache>>

NextUrl ==
    \/ secureUrl
    \/ \E ok \in BOOLEAN : testConnection(ok)

SpecUrl == InitUrl /\ [][NextUrl]_vars

\* C30: with an API key configured, a URL whose host is not localhost or
\* 127.0.0.1 comes out of ensureSecureUrl beginning with https://, a URL
\* that comes out beginning with http:// has the host localhost or
\* 127.0.0.1, and the connection test never carries the key to a non-local
\* host over http://.
C30_KeyNeverOverPlainHttp ==
    /\ (last.op = "ensureSecureUrl" /\ Truthy(last.apiKey))
          => /\ ~LocalHost(last.url) => startsWith(last.qdrantUrl, "https://")
             /\ startsWith(last.qdrantUrl, "http://") => LocalHost(last.url)
    /\ (last.op = "testConnection" /\ last.keySent)
          => (startsWith(last.fetched, "http://") => LocalHost(last.fetched))

\* the same for the URLs that hold 'localhost' or '127.0.0.1' nowhere but
\* in the host
C30_WhileLocalOnlyInHost ==
    (last.op = "ensureSecureUrl" /\ Truthy(last.apiKey)
       /\ (LocalHost(last.url)
             \/ ~(includes(last.url, "localhost") \/ includes(last.url, "127.0.0.1"))))
      => /\ ~LocalHost(last.url) => startsWith(last.qdrantUrl, "https://")
         /\ startsWith(last.qdrantUrl, "http://") => LocalHost(last.url)

====
